---------------------------- MODULE Spec2Model ----------------------------
(***************************************************************************)
(* A model of the film decoder of minimal-halo-stats-ts                    *)
(* (src/src/film-parser.ts): the zlib header test and chunk decompression, *)
(* the chunk loader and the film aggregator, the component catalog         *)
(* extractor and the gamertag scanner.                                     *)
(*                                                                         *)
(* Buffers are sequences of bytes (0..255).  A TLA+ sequence is indexed    *)
(* from 1 and a Buffer from 0: At(data, off) is data[off] of the source.   *)
(***************************************************************************)
EXTENDS Integers, Sequences, FiniteSets, TLC

VARIABLES
    \* ---- isZlibCompressed / decompressChunk called on one buffer
    zdata,          \* the buffer handed to the two functions
    zIsResult,      \* [called, value]: what isZlibCompressed(zdata) returned
    zDecResult,     \* how decompressChunk(zdata) ended (kind "none" before the call)
    \* ---- parseComponentDefinitions called on one buffer
    cdata,          \* the chunk-0 buffer
    cpc,            \* "ready" before the call, "done" after it
    cResult,        \* the ComponentDefinition[] returned
    \* ---- findGamertags called on one buffer, first with a roster and then
    \*      with that roster repeated
    gdata,          \* the chunk-33 buffer
    gRoster,        \* the roster of the first call
    gCall,          \* how many calls were started (0, 1, 2)
    gpc,            \* "idle", "scan" (inside the loops), "returned"
    gScan,          \* the locals of the running call: [idx, searchOffset, players]
    gIter,          \* the parity of the number of loop iterations it has taken
    gFirst,         \* the PlayerInfo[] the first call returned
    \* ---- a FilmParser over a film directory
    dir,            \* the directory: file key <<index, form>> -> [readable, bytes]
    parserGamertags, \* this.knownGamertags
    parserXuids,     \* this.knownXuids
    lcCall,         \* a direct loadChunk call: [called, index, outcome, reads,
                    \*   zlibChecked, decompressCalls]
    ppc,            \* parse(): "idle", "initial" (chunk 0 parsed), "done", "failed"
    pLoads,         \* the chunk indices parse() called loadChunk with, in order
    pReads,         \* the files parse() read, in order
    pResult,        \* how parse() ended: [kind, summary, message, cause]
    pComponents,    \* the catalog parseInitialState returned
    gciCall,        \* getChunkInfo(): [called, raised, chunks]
    \* ---- parseEvents or parseEventsWithPositions called on a buffer
    edata,          \* the chunk-33 buffer
    eRoster,        \* knownGamertags
    eFn,            \* the function called: "none", "parseEvents",
                    \*   "parseEventsWithPositions"
    eResult,        \* the events returned
    \* ---- extractPositions or extractMapPositions called on a buffer
    posData,        \* the buffer
    posFn,          \* the function called: "none", "extractPositions",
                    \*   "extractMapPositions"
    posRate,        \* the sampleRate of the extractPositions call
    posResult,      \* the PositionData[] returned
    \* ---- runs of the stats CLI (main) against one tokens.json
    tokensJson,     \* the file TOKENS_PATH: [present, ...StoredTokens]
    clock,          \* Date.now(), in milliseconds
    startedAt,      \* the clock when the running (or last) run started
    mainPc,         \* main(): "idle", "loaded" (line 758), "refresh" (line 762),
                    \*   "auth" (line 780), "fetch" (line 797), "done", "failed"
    tokens,         \* main's local: what loadTokens returned, then what it built
    needsAuth,      \* main's local
    loaded,         \* what loadTokens returned to the running (or last) run
    calls,          \* the calls the running (or last) run made, in order
    runs,           \* how many runs were started
    issued,         \* how many tokens the services issued so far
    \* ---- findXuids or parseSummary called on a loaded chunk 33
    xdata,          \* the chunk-33 buffer
    xTags,          \* knownGamertags
    xXuids,         \* knownXuids
    xFn,            \* the function called: "none", "findXuids", "parseSummary"
    xResult,        \* [threw, map, players]: the Map findXuids built, as its
                    \*   entries in insertion order, and the players of the summary
    \* ---- the gamertag lookup tool and the film-parser CLI around players.json
    profileResponse, \* the profileUsers of the Xbox profile response
    playersJson,    \* the file players.json: [present, value], value as parsed JSON
    fetchPc,        \* fetch-gamertags main: "ready", "done"
    roster,         \* parse-film main: [kind, gamertags, xuids], kind "none" before
                    \*   the run, "ok" or "error" (main rejected) after it
    \* ---- waitForAuthCode and the requests its server receives
    server,         \* the HTTP server of waitForAuthCode: "starting", "listening",
                    \*   "closed", "failed" (it emitted an error)
    keepAlive,      \* a connection accepted before the close is still open
    promise,        \* the promise returned: [state, value], state "pending",
                    \*   "resolved" or "rejected"
    requests,       \* the requests handled so far: [code, status]
    resolveCalls,   \* how often the handler called resolve
    \* ---- a BufferReader and the calls made on it
    rbuf,           \* the buffer of a BufferReader
    roffset,        \* this.offset
    rLast           \* the last call: [op, from, size, before, threw, value]: the
                    \*   byte range [from, from + size) it asked for, the offset
                    \*   before it, whether it threw and what it returned

zvars == <<zdata, zIsResult, zDecResult>>
cvars == <<cdata, cpc, cResult>>
gvars == <<gdata, gRoster, gCall, gpc, gScan, gIter, gFirst>>
lvars == <<dir, parserGamertags, parserXuids, lcCall, ppc, pLoads, pReads, pResult,
           pComponents, gciCall>>

evars == <<edata, eRoster, eFn, eResult>>

posvars == <<posData, posFn, posRate, posResult>>

avars == <<tokensJson, clock, startedAt, mainPc, tokens, needsAuth, loaded, calls, runs, issued>>

xvars == <<xdata, xTags, xXuids, xFn, xResult>>

jvars == <<profileResponse, playersJson, fetchPc, roster>>

wvars == <<server, keepAlive, promise, requests, resolveCalls>>

rvars == <<rbuf, roffset, rLast>>

vars == <<zdata, zIsResult, zDecResult, cdata, cpc, cResult,
          gdata, gRoster, gCall, gpc, gScan, gIter, gFirst,
          dir, parserGamertags, parserXuids, lcCall, ppc, pLoads, pReads, pResult,
          pComponents, gciCall, edata, eRoster, eFn, eResult,
          posData, posFn, posRate, posResult,
          tokensJson, clock, startedAt, mainPc, tokens, needsAuth, loaded, calls, runs,
          issued,
          xdata, xTags, xXuids, xFn, xResult,
          profileResponse, playersJson, fetchPc, roster,
          server, keepAlive, promise, requests, resolveCalls,
          rbuf, roffset, rLast>>

-----------------------------------------------------------------------------
(* Each specification below exercises one part of the decoder; the state   *)
(* of the other parts then rests in the values an earlier, finished call   *)
(* on an empty buffer leaves.                                              *)

IdleZlib ==
    /\ zdata = << >>
    /\ zIsResult = [called |-> TRUE, value |-> FALSE]
    /\ zDecResult = [outcome |-> [kind |-> "error", bytes |-> << >>,
                                  message |-> "Data too short to be zlib compressed",
                                  cause |-> ""],
                     inflated |-> FALSE]

IdleComponents ==
    /\ cdata = << >>
    /\ cpc = "done"
    /\ cResult = << >>

IdleGamertags ==
    /\ gdata = << >>
    /\ gRoster = << >>
    /\ gCall = 2
    /\ gpc = "returned"
    /\ gScan = [idx |-> 1, searchOffset |-> 0, players |-> << >>]
    /\ gIter = 0
    /\ gFirst = << >>

IdleLoader ==
    /\ dir = << >>
    /\ parserGamertags = << >>
    /\ parserXuids = << >>
    /\ lcCall = [called |-> FALSE, index |-> 0,
                 outcome |-> [kind |-> "none", bytes |-> << >>, message |-> "", cause |-> ""],
                 reads |-> << >>, zlibChecked |-> FALSE, decompressCalls |-> 0]
    /\ ppc = "failed"
    /\ pLoads = <<0>>
    /\ pReads = << >>
    /\ pResult = [kind |-> "error", summary |-> << >>,
                  message |-> "Chunk not found", cause |-> ""]
    /\ pComponents = << >>
    /\ gciCall = [called |-> TRUE, raised |-> FALSE, chunks |-> << >>]

IdleEvents ==
    /\ edata = << >>
    /\ eRoster = << >>
    /\ eFn = "parseEvents"
    /\ eResult = << >>

IdlePositions ==
    /\ posData = << >>
    /\ posFn = "extractMapPositions"
    /\ posRate = 0
    /\ posResult = << >>

\* no tokens.json: loadTokens returns null.  A token is the number the
\* services issued it under, and 0 is the empty string.
NoTokens ==
    [present |-> FALSE, refreshToken |-> 0, spartanToken |-> 0,
     spartanTokenExpiry |-> 0, xuid |-> 0, xblToken |-> 0]

IdleAuth ==
    /\ tokensJson = NoTokens
    /\ clock = 0
    /\ startedAt = 0
    /\ mainPc = "idle"
    /\ tokens = NoTokens
    /\ needsAuth = TRUE
    /\ loaded = NoTokens
    /\ calls = << >>
    /\ runs = 0
    /\ issued = 0

IdleXuids ==
    /\ xdata = << >>
    /\ xTags = << >>
    /\ xXuids = << >>
    /\ xFn = "findXuids"
    /\ xResult = [threw |-> FALSE, map |-> << >>, players |-> << >>]

IdlePlayers ==
    /\ profileResponse = << >>
    /\ playersJson = [present |-> FALSE, value |-> [type |-> "null"]]
    /\ fetchPc = "done"
    /\ roster = [kind |-> "ok", gamertags |-> << >>, xuids |-> << >>]

IdleWait ==
    /\ server = "failed"
    /\ keepAlive = FALSE
    /\ promise = [state |-> "rejected", value |-> ""]
    /\ requests = << >>
    /\ resolveCalls = 0

IdleReader ==
    /\ rbuf = << >>
    /\ roffset = 0
    /\ rLast = [op |-> "new", from |-> 0, size |-> 0, before |-> 0, threw |-> FALSE,
                value |-> << >>]

-----------------------------------------------------------------------------
(* Buffers *)

At(data, off) == data[off + 1]

\* data.subarray(start, end): the bytes start .. end-1, clamped to the buffer
Subarray(data, start, end) ==
    LET clamp(i) == IF i < 0 THEN (IF Len(data) + i < 0 THEN 0 ELSE Len(data) + i)
                    ELSE IF i > Len(data) THEN Len(data) ELSE i
        s == clamp(start)
        e == clamp(end)
    IN  IF e <= s THEN << >> ELSE SubSeq(data, s + 1, e)

\* every sequence over S of length 0..n
SeqsUpTo(S, n) == UNION { [1..k -> S] : k \in 0..n }

-----------------------------------------------------------------------------
(* node:zlib inflateSync, as decompressChunk uses it.                      *)
(* RFC 1950 envelope: CMF, FLG, deflate blocks, Adler-32 of the payload    *)
(* (big-endian).  Stored deflate blocks (BTYPE 00) are decoded exactly; a  *)
(* Huffman-coded block (BTYPE 01, 10) is not decoded: its outcome is any   *)
(* of the outcomes inflate can have.                                       *)

ZlibCMF == 120            \* 0x78
FlagFast == 94            \* 0x5E
FlagDefault == 156        \* 0x9C
FlagBest == 218           \* 0xDA
FlagNone == 1             \* 0x01

AdlerBase == 65521

Ok(bytes) == [kind |-> "ok", bytes |-> bytes, message |-> "", cause |-> ""]
Thrown(message, cause) == [kind |-> "error", bytes |-> << >>, message |-> message, cause |-> cause]
NoResult == [kind |-> "none", bytes |-> << >>, message |-> "", cause |-> ""]

RECURSIVE AdlerSums(_, _, _, _)
AdlerSums(bytes, i, a, b) ==
    IF i > Len(bytes) THEN <<a, b>>
    ELSE LET a2 == (a + bytes[i]) % AdlerBase
         IN  AdlerSums(bytes, i + 1, a2, (b + a2) % AdlerBase)

\* the four bytes of the Adler-32 checksum, most significant first
Adler32Bytes(bytes) ==
    LET s == AdlerSums(bytes, 1, 1, 0)
    IN  <<s[2] \div 256, s[2] % 256, s[1] \div 256, s[1] % 256>>

\* what a Huffman-coded block may decode to in this model
HuffmanOutcomes ==
    { Ok(<< >>), Ok(<<0>>), Thrown("inflate", "invalid code lengths set"),
      Thrown("inflate", "invalid distance too far back"),
      Thrown("inflate", "unexpected end of file") }

RECURSIVE InflateBlocks(_, _, _)
InflateBlocks(data, pos, out) ==
    IF pos > Len(data) THEN { Thrown("inflate", "unexpected end of file") }
    ELSE
      LET hdr    == data[pos]
          bfinal == hdr % 2
          btype  == (hdr \div 2) % 4
      IN  IF btype = 3 THEN { Thrown("inflate", "invalid block type") }
          ELSE IF btype # 0 THEN HuffmanOutcomes
          ELSE IF pos + 4 > Len(data) THEN { Thrown("inflate", "unexpected end of file") }
          ELSE
            LET len  == data[pos + 1] + 256 * data[pos + 2]
                nlen == data[pos + 3] + 256 * data[pos + 4]
                stop == pos + 4 + len
            IN  IF len + nlen # 65535
                  THEN { Thrown("inflate", "invalid stored block lengths") }
                ELSE IF stop > Len(data)
                  THEN { Thrown("inflate", "unexpected end of file") }
                ELSE
                  LET out2 == out \o SubSeq(data, pos + 5, stop)
                  IN  IF bfinal = 0 THEN InflateBlocks(data, stop + 1, out2)
                      ELSE IF stop + 4 > Len(data)
                        THEN { Thrown("inflate", "unexpected end of file") }
                      ELSE IF SubSeq(data, stop + 1, stop + 4) # Adler32Bytes(out2)
                        THEN { Thrown("inflate", "incorrect data check") }
                      ELSE { Ok(out2) }

\* the set of outcomes of inflateSync(data): one outcome, unless a
\* Huffman-coded block is met
inflateSync(data) ==
    IF Len(data) < 2 THEN { Thrown("inflate", "unexpected end of file") }
    ELSE IF (data[1] * 256 + data[2]) % 31 # 0
      THEN { Thrown("inflate", "incorrect header check") }
    ELSE IF data[1] % 16 # 8
      THEN { Thrown("inflate", "unknown compression method") }
    ELSE IF data[1] \div 16 > 7
      THEN { Thrown("inflate", "invalid window size") }
    ELSE IF (data[2] \div 32) % 2 = 1
      THEN IF Len(data) < 6 THEN { Thrown("inflate", "unexpected end of file") }
           ELSE { Thrown("inflate", "Missing dictionary") }
    ELSE InflateBlocks(data, 3, << >>)

\* a zlib stream of one final stored block holding payload, with flag byte flg
StoredStream(payload, flg) ==
    <<ZlibCMF, flg, 1, Len(payload) % 256, Len(payload) \div 256,
      255 - (Len(payload) % 256), 255 - (Len(payload) \div 256)>>
    \o payload \o Adler32Bytes(payload)

-----------------------------------------------------------------------------
(* Decompression *)

MsgTooShort == "Data too short to be zlib compressed"
MsgBadHeader == "Invalid zlib header: expected 0x78"
MsgInflateFailed == "Failed to decompress chunk"

\* decompressChunk mutated: the zlib stream is inflated before its header is
\* looked at, and a failing inflate is reported as a bad header
decompressChunkInflateFirst(compressedData) ==
    { [outcome |-> IF r.kind = "ok" THEN r ELSE Thrown(MsgBadHeader, r.cause),
       inflated |-> TRUE] : r \in inflateSync(compressedData) }

\* decompressChunk(compressedData): the set of its outcomes, each with whether
\* inflateSync was called
decompressChunk(compressedData) ==
    IF Len(compressedData) < 2
      THEN { [outcome |-> Thrown(MsgTooShort, ""), inflated |-> FALSE] }
    ELSE IF At(compressedData, 0) # ZlibCMF
      THEN { [outcome |-> Thrown(MsgBadHeader, ""), inflated |-> FALSE] }
    ELSE { [outcome |-> IF r.kind = "ok" THEN r ELSE Thrown(MsgInflateFailed, r.cause),
            inflated |-> TRUE] : r \in inflateSync(compressedData) }

\* isZlibCompressed mutated: the flag byte 0x01 (no compression) is forgotten
isZlibCompressedNoFlagNone(data) ==
    IF Len(data) < 2 THEN FALSE
    ELSE At(data, 0) = ZlibCMF
         /\ (At(data, 1) = FlagFast \/ At(data, 1) = FlagDefault \/ At(data, 1) = FlagBest)

isZlibCompressed(data) ==
    IF Len(data) < 2 THEN FALSE
    ELSE At(data, 0) = ZlibCMF
         /\ (At(data, 1) = FlagFast \/ At(data, 1) = FlagDefault
             \/ At(data, 1) = FlagBest \/ At(data, 1) = FlagNone)

-----------------------------------------------------------------------------
(* Searching a buffer *)

Min(S) == CHOOSE x \in S : \A y \in S : x <= y

MatchesAt(data, pattern, off) ==
    /\ off >= 0
    /\ off + Len(pattern) <= Len(data)
    /\ \A k \in 1..Len(pattern) : data[off + k] = pattern[k]

\* data.indexOf(pattern, from), from >= 0: the offset of the first occurrence
\* at or after from, or -1; an empty pattern is found at min(from, length)
IndexOf(data, pattern, from) ==
    IF Len(pattern) = 0 THEN (IF from < Len(data) THEN from ELSE Len(data))
    ELSE LET hits == { i \in from..(Len(data) - Len(pattern)) : MatchesAt(data, pattern, i) }
         IN  IF hits = {} THEN -1 ELSE Min(hits)

-----------------------------------------------------------------------------
(* Component Definition Parser (chunk 0) *)

\* the bytes of "-component" followed by the null byte: /-component\x00/
componentPattern == <<45, 99, 111, 109, 112, 111, 110, 101, 110, 116, 0>>

Hyphen == 45
PrintableFirst == 32      \* 0x20
PrintableEnd == 127       \* 0x7F, excluded

\* buffer.toString('ascii'): the high bit of every byte is dropped
AsciiString(bytes) == [i \in 1..Len(bytes) |-> bytes[i] % 128]

\* the backward scan for the start of the name that ends at endOffset
RECURSIVE NameStart(_, _)
NameStart(data, startOffset) ==
    IF /\ startOffset > 0
       /\ At(data, startOffset - 1) # 0
       /\ At(data, startOffset - 1) >= PrintableFirst
       /\ At(data, startOffset - 1) < PrintableEnd
    THEN NameStart(data, startOffset - 1)
    ELSE startOffset

\* the loop over the matches of componentPattern, from lastIndex on
RECURSIVE CollectComponents(_, _, _)
CollectComponents(data, lastIndex, components) ==
    LET index == IndexOf(data, componentPattern, lastIndex)
    IN  IF index = -1 THEN components
        ELSE
          LET endOffset   == index + Len(componentPattern) - 1
              startOffset == NameStart(data, endOffset)
              name        == AsciiString(Subarray(data, startOffset, endOffset))
              accepted    == Len(name) > 3 /\ \E k \in 1..Len(name) : name[k] = Hyphen
              entry       == [index |-> Len(components), name |-> name, offset |-> startOffset]
          IN  CollectComponents(data, index + Len(componentPattern),
                                IF accepted THEN Append(components, entry) ELSE components)

\* the filter mutated: nothing is dropped
DedupByNameKeepAll(components) == components

\* components.filter(...) with the set of names seen: an entry is dropped
\* when its name was seen, and kept, with the fields it was pushed with,
\* otherwise
RECURSIVE FilterSeen(_, _, _)
FilterSeen(components, i, seen) ==
    IF i > Len(components) THEN << >>
    ELSE IF components[i].name \in seen THEN FilterSeen(components, i + 1, seen)
    ELSE <<components[i]>> \o FilterSeen(components, i + 1, seen \cup {components[i].name})

DedupByName(components) == FilterSeen(components, 1, {})

parseComponentDefinitions(data) == DedupByName(CollectComponents(data, 0, << >>))

(* The chunk-0 buffers: up to MaxCTokens pieces, each a letter, a control    *)
(* byte, a null byte, "-component" with and without its null terminator.     *)

MaxCTokens == 4

ComponentSuffix == SubSeq(componentPattern, 1, 10)
CTokens == { <<97>>, <<98>>, <<31>>, <<0>>, ComponentSuffix, componentPattern }

RECURSIVE Flatten(_)
Flatten(pieces) ==
    IF pieces = << >> THEN << >> ELSE Head(pieces) \o Flatten(Tail(pieces))

CInputs == { Flatten(ts) : ts \in SeqsUpTo(CTokens, MaxCTokens) }

InitComponents ==
    /\ cdata \in CInputs
    /\ cpc = "ready"
    /\ cResult = << >>
    /\ IdleZlib /\ IdleGamertags /\ IdleLoader /\ IdleEvents /\ IdlePositions /\ IdleAuth
    /\ IdleXuids
    /\ IdlePlayers
    /\ IdleWait
    /\ IdleReader

CallParseComponentDefinitions ==
    /\ cpc = "ready"
    /\ cResult' = parseComponentDefinitions(cdata)
    /\ cpc' = "done"
    /\ UNCHANGED cdata
    /\ UNCHANGED <<zvars, gvars, lvars, evars, posvars, avars, xvars, jvars, wvars, rvars>>

NextComponents == CallParseComponentDefinitions

SpecComponents == InitComponents /\ [][NextComponents]_vars

-----------------------------------------------------------------------------
(* Player Data Parser (chunk 33) *)

\* Buffer.from(s, 'utf16le') of a string given as its UTF-16 code units:
\* two bytes a unit, the low byte first
Utf16le(s) ==
    [i \in 1..(2 * Len(s)) |->
        IF i % 2 = 1 THEN s[(i + 1) \div 2] % 256 ELSE s[i \div 2] \div 256]

\* data.readUInt32LE(off), for off + 4 <= data.length
ReadUInt32LE(data, off) ==
    At(data, off) + 256 * At(data, off + 1) + 65536 * At(data, off + 2)
    + 16777216 * At(data, off + 3)

TeamIdOffset == 36
TeamIdEnd == 40
MaxTeamId == 7

\* the PlayerInfo built for the occurrence of gamertag at foundOffset
PlayerAt(data, gamertag, foundOffset) ==
    LET possibleTeamId == ReadUInt32LE(data, foundOffset + TeamIdOffset)
    IN  [xuid |-> << >>,
         gamertag |-> gamertag,
         filmTeamId |-> IF /\ foundOffset + TeamIdEnd < Len(data)
                           /\ possibleTeamId >= 0 /\ possibleTeamId <= MaxTeamId
                        THEN possibleTeamId ELSE -1,
         offset |-> foundOffset]

\* the duplicate test mutated: a player is dropped only when the same
\* gamertag was recorded at the offset
PushPlayerPerGamertag(players, player) ==
    IF \E k \in 1..Len(players) :
          players[k].offset = player.offset /\ players[k].gamertag = player.gamertag
    THEN players ELSE Append(players, player)

\* if (!players.some(p => p.offset === foundOffset)) players.push(player)
PushPlayer(players, player) ==
    IF \E k \in 1..Len(players) : players[k].offset = player.offset
    THEN players ELSE Append(players, player)

\* One pass of the body of while (true) in findGamertags, for the roster
\* entry st.idx: either the search fails and the for loop moves to the next
\* gamertag, or the occurrence is recorded and the search moves past it.
FindGamertagsStep(data, knownGamertags, st) ==
    LET gamertag       == knownGamertags[st.idx]
        gamertagBuffer == Utf16le(gamertag)
        foundOffset    == IndexOf(data, gamertagBuffer, st.searchOffset)
    IN  IF foundOffset = -1
        THEN [idx |-> st.idx + 1, searchOffset |-> 0, players |-> st.players]
        ELSE [idx |-> st.idx,
              searchOffset |-> foundOffset + Len(gamertagBuffer),
              players |-> PushPlayer(st.players, PlayerAt(data, gamertag, foundOffset))]

FindGamertagsStart == [idx |-> 1, searchOffset |-> 0, players |-> << >>]

\* findGamertags(data, knownGamertags) run to its return, for a roster
\* without the empty gamertag (with it the loop does not end)
RECURSIVE FindGamertagsFrom(_, _, _)
FindGamertagsFrom(data, knownGamertags, st) ==
    IF st.idx > Len(knownGamertags) THEN st.players
    ELSE FindGamertagsFrom(data, knownGamertags, FindGamertagsStep(data, knownGamertags, st))

findGamertags(data, knownGamertags) ==
    FindGamertagsFrom(data, knownGamertags, FindGamertagsStart)

-----------------------------------------------------------------------------
(* XUID search (chunk 33).  A XUID string is the sequence of its character *)
(* codes; BigInt(xuidStr) is modelled for strings of decimal digits (the   *)
(* empty string is 0n), any other string is a SyntaxError.                 *)

Digit0 == 48
Digit9 == 57

IsDigit(c) == c >= Digit0 /\ c <= Digit9

\* one long division of a decimal number (most significant digit first) by
\* 256: <<quotient digits, remainder>>
RECURSIVE DivBy256(_, _, _, _)
DivBy256(digits, i, rem, quot) ==
    IF i > Len(digits) THEN <<quot, rem>>
    ELSE LET cur == rem * 10 + digits[i]
         IN  DivBy256(digits, i + 1, cur % 256, Append(quot, cur \div 256))

RECURSIVE StripZeros(_)
StripZeros(digits) ==
    IF digits # << >> /\ Head(digits) = 0 THEN StripZeros(Tail(digits)) ELSE digits

\* the little-endian bytes of a decimal number, least significant first
RECURSIVE BytesLE(_)
BytesLE(digits) ==
    LET d == StripZeros(digits)
    IN  IF d = << >> THEN << >>
        ELSE LET qr == DivBy256(d, 1, 0, << >>)
             IN  <<qr[2]>> \o BytesLE(qr[1])

\* xuidBuffer after writeBigUInt64LE(BigInt(xuidStr)): [threw, bytes];
\* the write throws for a value of more than 64 bits
XuidBuffer(xuidStr) ==
    IF \E k \in 1..Len(xuidStr) : ~IsDigit(xuidStr[k])
    THEN [threw |-> TRUE, bytes |-> << >>]
    ELSE LET le == BytesLE([k \in 1..Len(xuidStr) |-> xuidStr[k] - Digit0])
         IN  IF Len(le) > 8 THEN [threw |-> TRUE, bytes |-> << >>]
             ELSE [threw |-> FALSE,
                   bytes |-> [k \in 1..8 |-> IF k <= Len(le) THEN le[k] ELSE 0]]

\* the first while (true) loop: every occurrence of the 8 bytes
RECURSIVE BinaryLocations(_, _, _)
BinaryLocations(data, xuidBuffer, searchOffset) ==
    LET foundOffset == IndexOf(data, xuidBuffer, searchOffset)
    IN  IF foundOffset = -1 THEN << >>
        ELSE <<foundOffset>> \o BinaryLocations(data, xuidBuffer, foundOffset + 8)

\* the second loop mutated: the byte before the match is not looked at
RECURSIVE AsciiLocationsNoPrev(_, _, _)
AsciiLocationsNoPrev(data, xuidAscii, searchOffset) ==
    LET foundOffset == IndexOf(data, xuidAscii, searchOffset)
    IN  IF foundOffset = -1 THEN << >>
        ELSE
          LET nextChar == IF foundOffset + Len(xuidAscii) < Len(data)
                          THEN At(data, foundOffset + Len(xuidAscii)) ELSE 0
              isNextBoundary == nextChar < Digit0 \/ nextChar > Digit9
          IN  (IF isNextBoundary THEN <<foundOffset>> ELSE << >>)
              \o AsciiLocationsNoPrev(data, xuidAscii, foundOffset + Len(xuidAscii))

\* the second while (true) loop: the occurrences of the decimal string that
\* have no digit right before and right after them (xuidAscii is not empty)
RECURSIVE AsciiLocations(_, _, _)
AsciiLocations(data, xuidAscii, searchOffset) ==
    LET foundOffset == IndexOf(data, xuidAscii, searchOffset)
    IN  IF foundOffset = -1 THEN << >>
        ELSE
          LET prevChar == IF foundOffset > 0 THEN At(data, foundOffset - 1) ELSE 0
              nextChar == IF foundOffset + Len(xuidAscii) < Len(data)
                          THEN At(data, foundOffset + Len(xuidAscii)) ELSE 0
              isPrevBoundary == prevChar < Digit0 \/ prevChar > Digit9
              isNextBoundary == nextChar < Digit0 \/ nextChar > Digit9
          IN  (IF isPrevBoundary /\ isNextBoundary THEN <<foundOffset>> ELSE << >>)
              \o AsciiLocations(data, xuidAscii, foundOffset + Len(xuidAscii))

\* Map.set(xuidStr, locations): a key already present keeps its place
MapSet(map, key, value) ==
    IF \E k \in 1..Len(map) : map[k].xuid = key
    THEN [k \in 1..Len(map) |-> IF map[k].xuid = key THEN [xuid |-> key, locations |-> value]
                                 ELSE map[k]]
    ELSE Append(map, [xuid |-> key, locations |-> value])

\* findXuids(data, knownXuids), for XUID strings that are not empty:
\* [threw, map], the map as the sequence of its entries in insertion order
RECURSIVE FindXuidsFrom(_, _, _, _)
FindXuidsFrom(data, knownXuids, idx, map) ==
    IF idx > Len(knownXuids) THEN [threw |-> FALSE, map |-> map]
    ELSE
      LET xuidStr == knownXuids[idx]
          buf     == XuidBuffer(xuidStr)
      IN  IF buf.threw THEN [threw |-> TRUE, map |-> << >>]
          ELSE
            LET locations == BinaryLocations(data, buf.bytes, 0)
                             \o AsciiLocations(data, AsciiString(xuidStr), 0)
            IN  FindXuidsFrom(data, knownXuids, idx + 1,
                              IF Len(locations) > 0 THEN MapSet(map, xuidStr, locations)
                              ELSE map)

findXuids(data, knownXuids) == FindXuidsFrom(data, knownXuids, 1, << >>)

-----------------------------------------------------------------------------
(* Event Parser (chunk 33) *)

EventProbeOffset == 48
EventProbeSize == 8
RawDataSize == 16
EventTypeStep == 256              \* 0x100
MaxEventType == 2304              \* 0x900
MaxTimestamp == 3600000

\* data.readUInt16LE(off), for off + 2 <= data.length
ReadUInt16LE(data, off) == At(data, off) + 256 * At(data, off + 1)

\* n.toString(16), as the sequence of the digit values
RECURSIVE HexDigits(_)
HexDigits(n) == IF n < 16 THEN <<n>> ELSE Append(HexDigits(n \div 16), n % 16)

\* the table mutated: it has no entry for 0x200
EventTypeNameNoDeath(eventType) ==
    CASE eventType = 0    -> <<"spawn/join">>
      [] eventType = 256  -> <<"kill">>
      [] eventType = 768  -> <<"assist">>
      [] eventType = 1024 -> <<"medal_tier1">>
      [] eventType = 1280 -> <<"medal_tier2/ctf_action">>
      [] eventType = 1536 -> <<"flag_event">>
      [] eventType = 1792 -> <<"multi_kill">>
      [] eventType = 2048 -> <<"special_event">>
      [] eventType = 2304 -> <<"end_of_match">>
      [] OTHER            -> <<"unknown_", HexDigits(eventType)>>

\* EVENT_TYPES[eventType] ?? `unknown_${eventType.toString(16)}`
EventTypeName(eventType) ==
    CASE eventType = 0    -> <<"spawn/join">>
      [] eventType = 256  -> <<"kill">>
      [] eventType = 512  -> <<"death">>
      [] eventType = 768  -> <<"assist">>
      [] eventType = 1024 -> <<"medal_tier1">>
      [] eventType = 1280 -> <<"medal_tier2/ctf_action">>
      [] eventType = 1536 -> <<"flag_event">>
      [] eventType = 1792 -> <<"multi_kill">>
      [] eventType = 2048 -> <<"special_event">>
      [] eventType = 2304 -> <<"end_of_match">>
      [] OTHER            -> <<"unknown_", HexDigits(eventType)>>

\* the probe mutated: a timestamp equal to the ceiling is accepted
ProbeEventInclusiveCeiling(data, gamertag, foundOffset, ceiling) ==
    LET eventDataOffset == foundOffset + EventProbeOffset
    IN  IF eventDataOffset + EventProbeSize < Len(data)
        THEN LET eventType == ReadUInt16LE(data, eventDataOffset)
                 timestamp == ReadUInt32LE(data, eventDataOffset + 2)
             IN  IF /\ eventType % EventTypeStep = 0
                    /\ eventType <= MaxEventType
                    /\ timestamp <= ceiling
                 THEN << [timestamp |-> timestamp,
                          eventType |-> eventType,
                          eventTypeName |-> EventTypeName(eventType),
                          playerGamertag |-> gamertag,
                          rawData |-> Subarray(data, eventDataOffset,
                                               eventDataOffset + RawDataSize)] >>
                 ELSE << >>
        ELSE << >>

\* the events the probe of one gamertag occurrence contributes (none or one)
ProbeEvent(data, gamertag, foundOffset, ceiling) ==
    LET eventDataOffset == foundOffset + EventProbeOffset
    IN  IF eventDataOffset + EventProbeSize < Len(data)
        THEN LET eventType == ReadUInt16LE(data, eventDataOffset)
                 timestamp == ReadUInt32LE(data, eventDataOffset + 2)
             IN  IF /\ eventType % EventTypeStep = 0
                    /\ eventType <= MaxEventType
                    /\ timestamp < ceiling
                 THEN << [timestamp |-> timestamp,
                          eventType |-> eventType,
                          eventTypeName |-> EventTypeName(eventType),
                          playerGamertag |-> gamertag,
                          rawData |-> Subarray(data, eventDataOffset,
                                               eventDataOffset + RawDataSize)] >>
                 ELSE << >>
        ELSE << >>

\* the two loops of parseEvents, for a roster without the empty gamertag
RECURSIVE CollectEvents(_, _, _, _, _)
CollectEvents(data, knownGamertags, idx, searchOffset, events) ==
    IF idx > Len(knownGamertags) THEN events
    ELSE
      LET gamertag       == knownGamertags[idx]
          gamertagBuffer == Utf16le(gamertag)
          foundOffset    == IndexOf(data, gamertagBuffer, searchOffset)
      IN  IF foundOffset = -1
          THEN CollectEvents(data, knownGamertags, idx + 1, 0, events)
          ELSE CollectEvents(data, knownGamertags, idx,
                             foundOffset + Len(gamertagBuffer),
                             events \o ProbeEvent(data, gamertag, foundOffset, MaxTimestamp))

\* the sort mutated: an event goes in front of the events of its timestamp
RECURSIVE InsertBeforeEqual(_, _)
InsertBeforeEqual(sorted, e) ==
    IF sorted = << >> THEN <<e>>
    ELSE IF sorted[Len(sorted)].timestamp < e.timestamp THEN Append(sorted, e)
    ELSE Append(InsertBeforeEqual(SubSeq(sorted, 1, Len(sorted) - 1), e), sorted[Len(sorted)])

RECURSIVE SortByTimestampUnstable(_)
SortByTimestampUnstable(events) ==
    IF events = << >> THEN << >>
    ELSE InsertBeforeEqual(SortByTimestampUnstable(SubSeq(events, 1, Len(events) - 1)),
                           events[Len(events)])

\* events.sort((a, b) => a.timestamp - b.timestamp): a stable sort
RECURSIVE InsertByTimestamp(_, _)
InsertByTimestamp(sorted, e) ==
    IF sorted = << >> THEN <<e>>
    ELSE IF sorted[Len(sorted)].timestamp <= e.timestamp THEN Append(sorted, e)
    ELSE Append(InsertByTimestamp(SubSeq(sorted, 1, Len(sorted) - 1), e), sorted[Len(sorted)])

RECURSIVE SortByTimestamp(_)
SortByTimestamp(events) ==
    IF events = << >> THEN << >>
    ELSE InsertByTimestamp(SortByTimestamp(SubSeq(events, 1, Len(events) - 1)),
                           events[Len(events)])

SameEvent(a, b) ==
    /\ a.timestamp = b.timestamp
    /\ a.eventType = b.eventType
    /\ a.playerGamertag = b.playerGamertag

\* the filter mutated: an event goes when any event before it is the same
RECURSIVE DropAllDuplicates(_, _)
DropAllDuplicates(arr, index) ==
    IF index > Len(arr) THEN << >>
    ELSE (IF \A j \in 1..(index - 1) : ~SameEvent(arr[index], arr[j])
          THEN <<arr[index]>> ELSE << >>)
         \o DropAllDuplicates(arr, index + 1)

\* arr.filter((event, index, arr) => ...): an event goes when the one before
\* it in arr is the same event
RECURSIVE DropAdjacentDuplicates(_, _)
DropAdjacentDuplicates(arr, index) ==
    IF index > Len(arr) THEN << >>
    ELSE (IF index = 1 \/ ~SameEvent(arr[index], arr[index - 1]) THEN <<arr[index]>> ELSE << >>)
         \o DropAdjacentDuplicates(arr, index + 1)

parseEvents(data, knownGamertags) ==
    DropAdjacentDuplicates(SortByTimestamp(CollectEvents(data, knownGamertags, 1, 0, << >>)), 1)

-----------------------------------------------------------------------------
(* Position Data Parser (chunk 33).  A float is kept as its sign and the   *)
(* 31 bits of its magnitude: among finite floats the magnitudes order as   *)
(* their bit patterns do.                                                  *)

\* data.readFloatLE(off), for off + 4 <= data.length
ReadFloatLE(data, off) ==
    [neg |-> At(data, off + 3) >= 128,
     mag |-> At(data, off) + 256 * At(data, off + 1) + 65536 * At(data, off + 2)
             + 16777216 * (At(data, off + 3) % 128)]

FloatInfinityBits == 2139095040   \* 0x7F800000: exponent 255 is Infinity or NaN
Float600Bits == 1142292480        \* 0x44160000 is 600.0
FloatAboveTenthBits == 1036831949 \* 0x3DCCCCCD, the least float above 0.1

IsFinite(f) == f.mag < FloatInfinityBits

\* MIN_COORD <= f <= MAX_COORD
InCoordRange(f) == f.mag <= Float600Bits

\* Math.abs(f) > 0.1
AboveNoise(f) == f.mag >= FloatAboveTenthBits

\* the for loop of extractPositions, for sampleRate >= 1
RECURSIVE ExtractPositionsFrom(_, _, _)
ExtractPositionsFrom(data, sampleRate, offset) ==
    IF ~(offset < Len(data) - 12) THEN << >>
    ELSE
      LET x == ReadFloatLE(data, offset)
          y == ReadFloatLE(data, offset + 4)
          z == ReadFloatLE(data, offset + 8)
          accepted == /\ IsFinite(x) /\ IsFinite(y) /\ IsFinite(z)
                      /\ InCoordRange(x) /\ InCoordRange(y) /\ InCoordRange(z)
                      /\ (AboveNoise(x) \/ AboveNoise(y) \/ AboveNoise(z))
      IN  (IF accepted THEN << [x |-> x, y |-> y, z |-> z, offset |-> offset] >> ELSE << >>)
          \o ExtractPositionsFrom(data, sampleRate, offset + sampleRate)

extractPositions(data, sampleRate) == ExtractPositionsFrom(data, sampleRate, 0)

Float300Bits == 1133903872        \* 0x43960000 is 300.0
Float30Bits == 1106247680         \* 0x41F00000 is 30.0
Float20Bits == 1101004800         \* 0x41A00000 is 20.0
Float80Bits == 1117782016         \* 0x42A00000 is 80.0
MapStride == 4

\* the range test mutated: -300 and 300 pass
InMapRangeInclusive(f) == f.mag <= Float300Bits

\* f > -300 && f < 300, for a finite f
InMapRange(f) == f.mag < Float300Bits

\* Math.abs(f) > 30, for a finite f
Significant(f) == f.mag > Float30Bits

\* z > -20 && z < 80, for a finite z
InElevationRange(z) == IF z.neg THEN z.mag < Float20Bits ELSE z.mag < Float80Bits

\* the for loop of extractMapPositions
RECURSIVE ExtractMapPositionsFrom(_, _)
ExtractMapPositionsFrom(data, offset) ==
    IF ~(offset < Len(data) - 12) THEN << >>
    ELSE
      LET x == ReadFloatLE(data, offset)
          y == ReadFloatLE(data, offset + 4)
          z == ReadFloatLE(data, offset + 8)
          accepted == /\ IsFinite(x) /\ IsFinite(y) /\ IsFinite(z)
                      /\ InMapRange(x) /\ InMapRange(y)
                      /\ InElevationRange(z)
                      /\ (Significant(x) \/ Significant(y))
      IN  (IF accepted THEN << [x |-> x, y |-> y, z |-> z, offset |-> offset] >> ELSE << >>)
          \o ExtractMapPositionsFrom(data, offset + MapStride)

extractMapPositions(data) == ExtractMapPositionsFrom(data, 0)

-----------------------------------------------------------------------------
(* Events with positions (chunk 33) *)

PositionCeiling == 700000
WindowBefore == 200
WindowAfter == 300

Max2(a, b) == IF a >= b THEN a ELSE b
Min2(a, b) == IF a <= b THEN a ELSE b

\* whether the triplet at offset i looks like a map coordinate
MapCoordinateAt(data, i) ==
    LET x == ReadFloatLE(data, i)
        y == ReadFloatLE(data, i + 4)
        z == ReadFloatLE(data, i + 8)
    IN  /\ IsFinite(x) /\ IsFinite(y) /\ IsFinite(z)
        /\ Significant(x) /\ InMapRange(x)
        /\ Significant(y) /\ InMapRange(y)
        /\ InElevationRange(z)

\* the window loop mutated: i runs up to searchEnd included
NearbyPositionInclusiveEnd(data, searchStart, searchEnd) ==
    LET hits == { i \in searchStart..Min2(searchEnd, Len(data) - 12) :
                    (i - searchStart) % MapStride = 0 /\ MapCoordinateAt(data, i) }
    IN  IF hits = {} THEN << >>
        ELSE LET i == Min(hits)
             IN  << [x |-> ReadFloatLE(data, i), y |-> ReadFloatLE(data, i + 4),
                     z |-> ReadFloatLE(data, i + 8), offset |-> i] >>

\* the for loop over the window around a gamertag, i = searchStart,
\* searchStart + 4, ... below searchEnd: the first triplet that looks like
\* a map coordinate, as a sequence of none or one PositionData
NearbyPosition(data, searchStart, searchEnd) ==
    LET hits == { i \in searchStart..(searchEnd - 1) :
                    (i - searchStart) % MapStride = 0 /\ MapCoordinateAt(data, i) }
    IN  IF hits = {} THEN << >>
        ELSE LET i == Min(hits)
             IN  << [x |-> ReadFloatLE(data, i), y |-> ReadFloatLE(data, i + 4),
                     z |-> ReadFloatLE(data, i + 8), offset |-> i] >>

\* the events the probe of one gamertag occurrence contributes in
\* parseEventsWithPositions; position is none or one PositionData
ProbeEventWithPosition(data, gamertag, foundOffset) ==
    LET probed == ProbeEvent(data, gamertag, foundOffset, PositionCeiling)
        searchStart == Max2(0, foundOffset - WindowBefore)
        searchEnd == Min2(Len(data) - 12, foundOffset + WindowAfter)
    IN  IF probed = << >> THEN << >>
        ELSE << [timestamp |-> probed[1].timestamp,
                 eventType |-> probed[1].eventType,
                 eventTypeName |-> probed[1].eventTypeName,
                 playerGamertag |-> probed[1].playerGamertag,
                 rawData |-> probed[1].rawData,
                 position |-> NearbyPosition(data, searchStart, searchEnd)] >>

\* the two loops of parseEventsWithPositions, for a roster without the
\* empty gamertag
RECURSIVE CollectEventsWithPositions(_, _, _, _, _)
CollectEventsWithPositions(data, knownGamertags, idx, searchOffset, events) ==
    IF idx > Len(knownGamertags) THEN events
    ELSE
      LET gamertag       == knownGamertags[idx]
          gamertagBuffer == Utf16le(gamertag)
          foundOffset    == IndexOf(data, gamertagBuffer, searchOffset)
      IN  IF foundOffset = -1
          THEN CollectEventsWithPositions(data, knownGamertags, idx + 1, 0, events)
          ELSE CollectEventsWithPositions(data, knownGamertags, idx,
                                          foundOffset + Len(gamertagBuffer),
                                          events \o ProbeEventWithPosition(data, gamertag,
                                                                           foundOffset))

parseEventsWithPositions(data, knownGamertags) ==
    DropAdjacentDuplicates(
        SortByTimestamp(CollectEventsWithPositions(data, knownGamertags, 1, 0, << >>)), 1)

\* findPlayerEventMarkers(data): the occurrences of 0x2D 0xC0
PlayerEventMarker == <<45, 192>>

RECURSIVE MarkersFrom(_, _)
MarkersFrom(data, searchOffset) ==
    LET foundOffset == IndexOf(data, PlayerEventMarker, searchOffset)
    IN  IF foundOffset = -1 THEN << >>
        ELSE <<foundOffset>> \o MarkersFrom(data, foundOffset + 2)

findPlayerEventMarkers(data) == MarkersFrom(data, 0)

-----------------------------------------------------------------------------
(* Main Film Parser.  The film directory maps the files it holds to their  *)
(* state: the key <<i, "raw">> is filmChunk<i>, <<i, "dec">> is            *)
(* filmChunk<i>_dec; readable is whether readFile of it succeeds.          *)

LastChunk == 33
SummaryChunk == 33
PositionSampleRate == 50
XuidProximity == 100

MsgNotFound == "Chunk not found"
MsgReadFailed == "readFile failed"

RawKey(chunkIndex) == <<chunkIndex, "raw">>
DecKey(chunkIndex) == <<chunkIndex, "dec">>

existsSync(files, key) == key \in DOMAIN files

\* await readFile(path)
readFile(files, key) ==
    IF files[key].readable THEN Ok(files[key].bytes) ELSE Thrown(MsgReadFailed, "")

LoadResult(outcome, reads, zlibChecked, decompressCalls) ==
    [outcome |-> outcome, reads |-> reads, zlibChecked |-> zlibChecked,
     decompressCalls |-> decompressCalls]

\* loadChunk mutated: every compressed-form file is decompressed
LoadCompressedAlways(chunkIndex, compressed) ==
    { LoadResult(d.outcome, <<RawKey(chunkIndex)>>, FALSE, 1) :
        d \in decompressChunk(compressed) }

\* what loadChunk does with the bytes read from the compressed file
LoadCompressed(chunkIndex, compressed) ==
    IF isZlibCompressed(compressed)
    THEN { LoadResult(d.outcome, <<RawKey(chunkIndex)>>, TRUE, 1) :
             d \in decompressChunk(compressed) }
    ELSE { LoadResult(Ok(compressed), <<RawKey(chunkIndex)>>, TRUE, 0) }

\* loadChunk mutated: the compressed file is tried first, the cache second
loadChunkCompressedFirst(files, chunkIndex) ==
    IF existsSync(files, RawKey(chunkIndex))
    THEN LET compressed == readFile(files, RawKey(chunkIndex))
         IN  IF compressed.kind = "error"
             THEN { LoadResult(compressed, <<RawKey(chunkIndex)>>, FALSE, 0) }
             ELSE LoadCompressed(chunkIndex, compressed.bytes)
    ELSE IF existsSync(files, DecKey(chunkIndex))
    THEN { LoadResult(readFile(files, DecKey(chunkIndex)), <<DecKey(chunkIndex)>>, FALSE, 0) }
    ELSE { LoadResult(Thrown(MsgNotFound, ""), << >>, FALSE, 0) }

\* loadChunk(chunkIndex): the set of its outcomes, each with the files it
\* read, whether isZlibCompressed was asked and how often decompressChunk ran
loadChunk(files, chunkIndex) ==
    IF existsSync(files, DecKey(chunkIndex))
    THEN { LoadResult(readFile(files, DecKey(chunkIndex)), <<DecKey(chunkIndex)>>, FALSE, 0) }
    ELSE IF ~existsSync(files, RawKey(chunkIndex))
    THEN { LoadResult(Thrown(MsgNotFound, ""), << >>, FALSE, 0) }
    ELSE LET compressed == readFile(files, RawKey(chunkIndex))
         IN  IF compressed.kind = "error"
             THEN { LoadResult(compressed, <<RawKey(chunkIndex)>>, FALSE, 0) }
             ELSE LoadCompressed(chunkIndex, compressed.bytes)

Abs(n) == IF n < 0 THEN -n ELSE n

\* the loops over xuidLocations and their locations for one player: the
\* player with the xuid it ends with
RECURSIVE CorrelatePlayer(_, _, _)
CorrelatePlayer(player, xuidLocations, k) ==
    IF k > Len(xuidLocations) THEN player
    ELSE
      LET entry == xuidLocations[k]
          near  == \E n \in 1..Len(entry.locations) :
                      Abs(entry.locations[n] - player.offset) < XuidProximity
          next  == IF near THEN [player EXCEPT !.xuid = entry.xuid] ELSE player
      IN  IF next.xuid # << >> THEN next ELSE CorrelatePlayer(next, xuidLocations, k + 1)

\* the part of parseSummary after the load: [threw, summary]
SummaryOf(data, gamertags, xuids) ==
    LET players == findGamertags(data, gamertags)
        events == parseEvents(data, gamertags)
        positions == extractPositions(data, PositionSampleRate)
        found == findXuids(data, xuids)
    IN  IF found.threw THEN [threw |-> TRUE, summary |-> << >>]
        ELSE [threw |-> FALSE,
              summary |-> [players |-> [i \in 1..Len(players) |->
                                          CorrelatePlayer(players[i], found.map, 1)],
                           events |-> events,
                           positions |-> positions]]

\* parse() after parseInitialState settled with the load outcome r:
\* the next position of parse(), its result so far and the catalog

\* mutated: a failed load of chunk 0 gives an empty catalog and parse() goes on
AfterInitialStateLenient(r) ==
    [pc |-> "initial",
     result |-> [kind |-> "none", summary |-> << >>, message |-> "", cause |-> ""],
     components |-> IF r.outcome.kind = "error" THEN << >>
                    ELSE parseComponentDefinitions(r.outcome.bytes)]

AfterInitialState(r) ==
    IF r.outcome.kind = "error"
    THEN [pc |-> "failed",
          result |-> [kind |-> "error", summary |-> << >>,
                      message |-> r.outcome.message, cause |-> r.outcome.cause],
          components |-> << >>]
    ELSE [pc |-> "initial",
          result |-> [kind |-> "none", summary |-> << >>, message |-> "", cause |-> ""],
          components |-> parseComponentDefinitions(r.outcome.bytes)]

\* parse() after parseSummary settled with the load outcome r
AfterSummary(r, components, gamertags, xuids) ==
    IF r.outcome.kind = "error"
    THEN [pc |-> "failed",
          result |-> [kind |-> "error", summary |-> << >>,
                      message |-> r.outcome.message, cause |-> r.outcome.cause]]
    ELSE LET s == SummaryOf(r.outcome.bytes, gamertags, xuids)
         IN  IF s.threw
             THEN [pc |-> "failed",
                   result |-> [kind |-> "error", summary |-> << >>,
                               message |-> "findXuids threw", cause |-> ""]]
             ELSE [pc |-> "done",
                   result |-> [kind |-> "ok",
                               summary |-> [components |-> components,
                                            players |-> s.summary.players,
                                            events |-> s.summary.events,
                                            positions |-> s.summary.positions],
                               message |-> "", cause |-> ""]]

\* the body of the try block of getChunkInfo for index i:
\* [threw, push, info]
ChunkInfoBody(files, i) ==
    LET hasRaw == existsSync(files, RawKey(i))
        hasDec == existsSync(files, DecKey(i))
        compressed   == IF hasRaw THEN readFile(files, RawKey(i)) ELSE Ok(<< >>)
        decompressed == IF hasDec THEN readFile(files, DecKey(i)) ELSE Ok(<< >>)
        compressedSize   == Len(compressed.bytes)
        decompressedSize == Len(decompressed.bytes)
        chunkType == IF hasDec /\ decompressedSize >= 4
                     THEN ReadUInt32LE(decompressed.bytes, 0) ELSE 0
    IN  [threw |-> compressed.kind = "error" \/ decompressed.kind = "error",
         push  |-> compressedSize > 0 \/ decompressedSize > 0,
         info  |-> [index |-> i, type |-> chunkType,
                    compressedSize |-> compressedSize,
                    decompressedSize |-> decompressedSize]]

\* one pass of the for loop mutated: no catch block, a failing read ends
\* getChunkInfo with the error
ChunkInfoPassNoCatch(files, i, acc) ==
    LET b == ChunkInfoBody(files, i)
    IN  IF b.threw THEN [raised |-> TRUE, chunks |-> acc.chunks]
        ELSE IF b.push THEN [raised |-> FALSE, chunks |-> Append(acc.chunks, b.info)]
        ELSE acc

\* one pass of the for loop mutated: every index gets an entry
ChunkInfoPassPushAll(files, i, acc) ==
    LET b == ChunkInfoBody(files, i)
    IN  IF b.threw THEN acc
        ELSE [raised |-> FALSE, chunks |-> Append(acc.chunks, b.info)]

\* one pass of the for loop: try { body } catch { skip }
ChunkInfoPass(files, i, acc) ==
    LET b == ChunkInfoBody(files, i)
    IN  IF b.threw THEN acc
        ELSE IF b.push THEN [raised |-> FALSE, chunks |-> Append(acc.chunks, b.info)]
        ELSE acc

RECURSIVE ChunkInfoLoop(_, _, _)
ChunkInfoLoop(files, i, acc) ==
    IF i > LastChunk \/ acc.raised THEN acc
    ELSE ChunkInfoLoop(files, i + 1, ChunkInfoPass(files, i, acc))

getChunkInfo(files) == ChunkInfoLoop(files, 0, [raised |-> FALSE, chunks |-> << >>])

-----------------------------------------------------------------------------
(* The buffers the two functions are called on *)

MaxZLen == 2          \* every buffer over ZBytes up to this length
MaxPayload == 1       \* payloads of the well-formed streams

ZBytes == {0, 1, 32, 94, 120, 156, 218, 255}
PayloadBytes == {0, 65}
AcceptedFlags == {FlagFast, FlagDefault, FlagBest, FlagNone}

ZStreams == { StoredStream(p, f) : p \in SeqsUpTo(PayloadBytes, MaxPayload), f \in AcceptedFlags }

\* a stream cut short, and a stream with one byte changed
ZPrefixes == UNION { { SubSeq(s, 1, k) : k \in 0..Len(s) } : s \in ZStreams }
ZCorrupted ==
    UNION { { [s EXCEPT ![i] = (s[i] + 1) % 256] : i \in 1..Len(s) } : s \in ZStreams }

ZInputs == SeqsUpTo(ZBytes, MaxZLen) \cup ZStreams \cup ZPrefixes \cup ZCorrupted

InitZlib ==
    /\ zdata \in ZInputs
    /\ zIsResult = [called |-> FALSE, value |-> FALSE]
    /\ zDecResult = [outcome |-> NoResult, inflated |-> FALSE]
    /\ IdleComponents /\ IdleGamertags /\ IdleLoader /\ IdleEvents /\ IdlePositions /\ IdleAuth
    /\ IdleXuids
    /\ IdlePlayers
    /\ IdleWait
    /\ IdleReader

CallIsZlibCompressed ==
    /\ ~zIsResult.called
    /\ zIsResult' = [called |-> TRUE, value |-> isZlibCompressed(zdata)]
    /\ UNCHANGED <<zdata, zDecResult>>
    /\ UNCHANGED <<cvars, gvars, lvars, evars, posvars, avars, xvars, jvars, wvars, rvars>>

CallDecompressChunk ==
    /\ zDecResult.outcome.kind = "none"
    /\ zDecResult' \in decompressChunk(zdata)
    /\ UNCHANGED <<zdata, zIsResult>>
    /\ UNCHANGED <<cvars, gvars, lvars, evars, posvars, avars, xvars, jvars, wvars, rvars>>

NextZlib == CallIsZlibCompressed \/ CallDecompressChunk

SpecZlib == InitZlib /\ [][NextZlib]_vars

(* The chunk-33 buffers of the gamertag scan: up to MaxGTokens pieces, each *)
(* "A" or "B" in UTF-16LE, a null byte, or 34 null bytes followed by a team *)
(* id of 3 and a null byte (so that a gamertag right before it has its team *)
(* id field inside the buffer), or that pad without its last byte (so that  *)
(* a gamertag right before it has exactly 40 bytes from its offset to the   *)
(* end).  The rosters: up to MaxRoster gamertags among "", "A" and "AB".    *)

MaxGTokens == 3
MaxRoster == 2

TeamPad == [i \in 1..39 |-> IF i = 35 THEN 3 ELSE 0]
TeamPadShort == SubSeq(TeamPad, 1, 38)
GTokens == { <<65, 0>>, <<66, 0>>, <<0>>, TeamPad, TeamPadShort }
GInputs == { Flatten(ts) : ts \in SeqsUpTo(GTokens, MaxGTokens) }
Gamertags == { << >>, <<65>>, <<65, 66>> }
Rosters == SeqsUpTo(Gamertags, MaxRoster)

\* the roster of the running call
gKnown == IF gCall = 2 THEN gRoster \o gRoster ELSE gRoster

InitGamertags ==
    /\ gdata \in GInputs
    /\ gRoster \in Rosters
    /\ gCall = 0
    /\ gpc = "idle"
    /\ gScan = FindGamertagsStart
    /\ gIter = 0
    /\ gFirst = << >>
    /\ IdleZlib /\ IdleComponents /\ IdleLoader /\ IdleEvents /\ IdlePositions /\ IdleAuth
    /\ IdleXuids
    /\ IdlePlayers
    /\ IdleWait
    /\ IdleReader

\* findGamertags(gdata, gRoster) is called, and once it returned,
\* findGamertags(gdata, gRoster ++ gRoster)
CallFindGamertags ==
    /\ \/ gpc = "idle" /\ gCall = 0
       \/ gpc = "returned" /\ gCall = 1
    /\ gCall' = gCall + 1
    /\ gpc' = "scan"
    /\ gScan' = FindGamertagsStart
    /\ gIter' = 0
    /\ gFirst' = IF gCall = 1 THEN gScan.players ELSE gFirst
    /\ UNCHANGED <<gdata, gRoster>>
    /\ UNCHANGED <<zvars, cvars, lvars, evars, posvars, avars, xvars, jvars, wvars, rvars>>

FindGamertagsIterate ==
    /\ gpc = "scan"
    /\ gScan.idx <= Len(gKnown)
    /\ gScan' = FindGamertagsStep(gdata, gKnown, gScan)
    /\ gIter' = 1 - gIter
    /\ UNCHANGED <<gdata, gRoster, gCall, gpc, gFirst>>
    /\ UNCHANGED <<zvars, cvars, lvars, evars, posvars, avars, xvars, jvars, wvars, rvars>>

FindGamertagsReturn ==
    /\ gpc = "scan"
    /\ gScan.idx > Len(gKnown)
    /\ gpc' = "returned"
    /\ UNCHANGED <<gdata, gRoster, gCall, gScan, gIter, gFirst>>
    /\ UNCHANGED <<zvars, cvars, lvars, evars, posvars, avars, xvars, jvars, wvars, rvars>>

NextGamertags == CallFindGamertags \/ FindGamertagsIterate \/ FindGamertagsReturn

SpecGamertags == InitGamertags /\ [][NextGamertags]_vars

\* the call keeps running: a loop iteration that can be taken is taken
SpecGamertagsFair == SpecGamertags /\ WF_vars(NextGamertags)

(* The film directories: files may exist for the chunks 0, 5 and 33, at    *)
(* most MaxFiles of them at once; a file is unreadable (readFile fails,    *)
(* as for a directory of that name), empty, one byte, "a-component\0",     *)
(* 0x78 with a flag byte isZlibCompressed refuses, a zlib header with      *)
(* nothing after it, or "a-component\0" as a zlib stream.                  *)

MaxFiles == 2

CatalogBytes == <<97>> \o componentPattern
FileStates ==
    { [readable |-> FALSE, bytes |-> << >>] }
    \cup { [readable |-> TRUE, bytes |-> b] :
             b \in { << >>, <<5>>, CatalogBytes, <<ZlibCMF, 32>>, <<ZlibCMF, FlagNone>>,
                     StoredStream(CatalogBytes, FlagFast) } }

FileChunks == {0, 5, SummaryChunk}
FileKeys == { RawKey(i) : i \in FileChunks } \cup { DecKey(i) : i \in FileChunks }
Directories ==
    UNION { [K -> FileStates] : K \in { S \in SUBSET FileKeys : Cardinality(S) <= MaxFiles } }

\* the chunk indices loadChunk is called with directly
LoadIndices == FileChunks \cup {1}

InitLoader ==
    /\ dir \in Directories
    /\ parserGamertags = << <<116>> >>
    /\ parserXuids = << <<49>> >>
    /\ lcCall = [called |-> FALSE, index |-> 0, outcome |-> NoResult,
                 reads |-> << >>, zlibChecked |-> FALSE, decompressCalls |-> 0]
    /\ ppc = "idle"
    /\ pLoads = << >>
    /\ pReads = << >>
    /\ pResult = [kind |-> "none", summary |-> << >>, message |-> "", cause |-> ""]
    /\ pComponents = << >>
    /\ gciCall = [called |-> FALSE, raised |-> FALSE, chunks |-> << >>]
    /\ IdleZlib /\ IdleComponents /\ IdleGamertags /\ IdleEvents /\ IdlePositions /\ IdleAuth
    /\ IdleXuids
    /\ IdlePlayers
    /\ IdleWait
    /\ IdleReader

\* parser.loadChunk(i) is called and settles
CallLoadChunk ==
    /\ ~lcCall.called
    /\ \E i \in LoadIndices : \E r \in loadChunk(dir, i) :
          lcCall' = [called |-> TRUE, index |-> i, outcome |-> r.outcome, reads |-> r.reads,
                     zlibChecked |-> r.zlibChecked, decompressCalls |-> r.decompressCalls]
    /\ UNCHANGED <<dir, parserGamertags, parserXuids, ppc, pLoads, pReads, pResult,
                   pComponents, gciCall>>
    /\ UNCHANGED <<zvars, cvars, gvars, evars, posvars, avars, xvars, jvars, wvars, rvars>>

\* parser.parse() is called: parseInitialState() up to its return or throw
ParseInitialState ==
    /\ ppc = "idle"
    /\ \E r \in loadChunk(dir, 0) :
          LET a == AfterInitialState(r)
          IN  /\ ppc' = a.pc
              /\ pResult' = a.result
              /\ pComponents' = a.components
              /\ pReads' = pReads \o r.reads
    /\ pLoads' = Append(pLoads, 0)
    /\ UNCHANGED <<dir, parserGamertags, parserXuids, lcCall, gciCall>>
    /\ UNCHANGED <<zvars, cvars, gvars, evars, posvars, avars, xvars, jvars, wvars, rvars>>

\* parse() goes on: parseSummary() up to its return or throw, and the return
\* of parse()
ParseSummary ==
    /\ ppc = "initial"
    /\ \E r \in loadChunk(dir, SummaryChunk) :
          LET a == AfterSummary(r, pComponents, parserGamertags, parserXuids)
          IN  /\ ppc' = a.pc
              /\ pResult' = a.result
              /\ pReads' = pReads \o r.reads
    /\ pLoads' = Append(pLoads, SummaryChunk)
    /\ UNCHANGED <<dir, parserGamertags, parserXuids, lcCall, pComponents, gciCall>>
    /\ UNCHANGED <<zvars, cvars, gvars, evars, posvars, avars, xvars, jvars, wvars, rvars>>

\* parser.getChunkInfo() is called and settles
CallGetChunkInfo ==
    /\ ~gciCall.called
    /\ LET r == getChunkInfo(dir)
       IN  gciCall' = [called |-> TRUE, raised |-> r.raised, chunks |-> r.chunks]
    /\ UNCHANGED <<dir, parserGamertags, parserXuids, lcCall, ppc, pLoads, pReads,
                   pResult, pComponents>>
    /\ UNCHANGED <<zvars, cvars, gvars, evars, posvars, avars, xvars, jvars, wvars, rvars>>

NextLoader == CallLoadChunk \/ ParseInitialState \/ ParseSummary \/ CallGetChunkInfo

SpecLoader == InitLoader /\ [][NextLoader]_vars

-----------------------------------------------------------------------------
(* The event extractors on chunk-33 buffers.  A buffer is a run of up to   *)
(* MaxETokens pieces, each one player record or a pair of records with the  *)
(* later timestamp first.  A player record: a gamertag ("A" or "B") in      *)
(* UTF-16LE, 46 null bytes, the event probe at 48 bytes from the gamertag   *)
(* (a uint16 event                                                          *)
(* type and a uint32 timestamp, little-endian) and a tail.  The tail is 10  *)
(* null bytes (16 bytes from the probe to the end of the record), 3 or 2    *)
(* null bytes (9 or 8 bytes from the probe to the end of the record), or    *)
(* two null bytes and the floats 128.0, 128.0 at the offsets 56 and 60 of   *)
(* the record.  One more piece holds the gamertag "AB", whose first         *)
(* character is also the gamertag "A".  The rosters: none, one or two       *)
(* gamertags among "A" and "B", and the roster "A", "AB".                   *)

MaxETokens == 2

Zeros(n) == [i \in 1..n |-> 0]
LE16(v) == <<v % 256, v \div 256>>
LE32(v) == <<v % 256, (v \div 256) % 256, (v \div 65536) % 256, v \div 16777216>>

PlayerRecord(tag, eventType, timestamp, tail) ==
    <<tag, 0>> \o Zeros(46) \o LE16(eventType) \o LE32(timestamp) \o tail

FloatTail == <<0, 0, 0, 0, 0, 67, 0, 0, 0, 67>>

ETokens ==
    { PlayerRecord(65, 256, 5, Zeros(10)),
      PlayerRecord(65, 512, 5, Zeros(10)),
      PlayerRecord(66, 256, 5, Zeros(10)),
      PlayerRecord(65, 256, 699999, Zeros(10)) \o PlayerRecord(65, 512, 5, Zeros(10)),
      PlayerRecord(65, 256, 5, Zeros(3)),
      PlayerRecord(65, 256, 5, Zeros(2)),
      PlayerRecord(65, 2560, 5, Zeros(10)),
      PlayerRecord(65, 257, 5, Zeros(10)),
      PlayerRecord(65, 256, 3600000, Zeros(10)),
      PlayerRecord(65, 256, 700000, Zeros(10)),
      PlayerRecord(65, 256, 5, FloatTail),
      <<65, 0, 66, 0>> \o Zeros(44) \o LE16(256) \o LE32(7) \o Zeros(10) }
EInputs == { Flatten(ts) : ts \in SeqsUpTo(ETokens, MaxETokens) }
ERosters == SeqsUpTo({ <<65>>, <<66>> }, 2) \cup { << <<65>>, <<65, 66>> >> }

InitEvents ==
    /\ edata \in EInputs
    /\ eRoster \in ERosters
    /\ eFn = "none"
    /\ eResult = << >>
    /\ IdleZlib /\ IdleComponents /\ IdleGamertags /\ IdleLoader /\ IdlePositions /\ IdleAuth
    /\ IdleXuids
    /\ IdlePlayers
    /\ IdleWait
    /\ IdleReader

CallParseEvents ==
    /\ eFn = "none"
    /\ eFn' = "parseEvents"
    /\ eResult' = parseEvents(edata, eRoster)
    /\ UNCHANGED <<edata, eRoster>>
    /\ UNCHANGED <<zvars, cvars, gvars, lvars, posvars, avars, xvars, jvars, wvars, rvars>>

CallParseEventsWithPositions ==
    /\ eFn = "none"
    /\ eFn' = "parseEventsWithPositions"
    /\ eResult' = parseEventsWithPositions(edata, eRoster)
    /\ UNCHANGED <<edata, eRoster>>
    /\ UNCHANGED <<zvars, cvars, gvars, lvars, posvars, avars, xvars, jvars, wvars, rvars>>

NextEvents == CallParseEvents \/ CallParseEventsWithPositions

SpecEvents == InitEvents /\ [][NextEvents]_vars

-----------------------------------------------------------------------------
(* The position extractors.  A buffer is up to MaxPFloats little-endian     *)
(* floats followed by one null byte; the floats are 0.0, the float right    *)
(* below 0.1, 600.0, the float right above 600.0, Infinity, 128.0, 300.0,   *)
(* 80.0 and -20.0.  extractPositions is called with a sampleRate of 1 or of *)
(* 50.                                                                      *)

MaxPFloats == 4

PFloats ==
    { <<0, 0, 0, 0>>, <<204, 204, 204, 61>>, <<0, 0, 22, 68>>, <<1, 0, 22, 68>>,
      <<0, 0, 128, 127>>, <<0, 0, 0, 67>>, <<0, 0, 150, 67>>, <<0, 0, 160, 66>>,
      <<0, 0, 160, 193>> }
PInputs == { Flatten(ts) \o tail : ts \in SeqsUpTo(PFloats, MaxPFloats),
                                    tail \in { << >>, <<0>> } }
SampleRates == { 1, PositionSampleRate }

InitPositions ==
    /\ posData \in PInputs
    /\ posFn = "none"
    /\ posRate = 0
    /\ posResult = << >>
    /\ IdleZlib /\ IdleComponents /\ IdleGamertags /\ IdleLoader /\ IdleEvents /\ IdleAuth
    /\ IdleXuids
    /\ IdlePlayers
    /\ IdleWait
    /\ IdleReader

CallExtractPositions ==
    /\ posFn = "none"
    /\ \E sampleRate \in SampleRates :
          /\ posRate' = sampleRate
          /\ posResult' = extractPositions(posData, sampleRate)
    /\ posFn' = "extractPositions"
    /\ UNCHANGED posData
    /\ UNCHANGED <<zvars, cvars, gvars, lvars, evars, avars, xvars, jvars, wvars, rvars>>

CallExtractMapPositions ==
    /\ posFn = "none"
    /\ posFn' = "extractMapPositions"
    /\ posResult' = extractMapPositions(posData)
    /\ UNCHANGED <<posData, posRate>>
    /\ UNCHANGED <<zvars, cvars, gvars, lvars, evars, avars, xvars, jvars, wvars, rvars>>

NextPositions == CallExtractPositions \/ CallExtractMapPositions

SpecPositions == InitPositions /\ [][NextPositions]_vars

-----------------------------------------------------------------------------
(* The stats CLI (main): the tokens cached in tokens.json, their refresh   *)
(* and the interactive authentication.  The services issue tokens under    *)
(* increasing numbers, so that two tokens are equal only when they are the *)
(* same token; the signed-in user has the xuid 1.                          *)

ExpiryMargin == 300000
TokenLifetime == 3600000

\* what the OAuth endpoint answered: an access_token with a refresh_token,
\* an access_token without one, or nothing the chain of requests accepts
OAuthResponses == {"full", "noRefresh", "fail"}

\* the value authenticate returns when no request of its chain fails
authenticate(response, n) ==
    [spartanToken |-> n, xuid |-> 1,
     refreshToken |-> IF response = "full" THEN n ELSE 0,
     xblToken |-> n]

\* the value refreshAuthentication returns when no request of its chain fails
refreshAuthentication(response, refreshToken, n) ==
    [spartanToken |-> n, xuid |-> 1,
     refreshToken |-> IF response = "full" THEN n ELSE refreshToken,
     xblToken |-> n]

\* the StoredTokens main builds from a result at the time now
BuildTokens(result, now) ==
    [present |-> TRUE, refreshToken |-> result.refreshToken,
     spartanToken |-> result.spartanToken,
     spartanTokenExpiry |-> now + TokenLifetime,
     xuid |-> result.xuid, xblToken |-> result.xblToken]

\* tokens && tokens.spartanToken && tokens.refreshToken
HasStoredTokens(t) == t.present /\ t.spartanToken # 0 /\ t.refreshToken # 0

SpartanTokenFreshNoMargin(t, now) ==
    t.spartanTokenExpiry # 0 /\ now < t.spartanTokenExpiry

\* tokens.spartanTokenExpiry && Date.now() < tokens.spartanTokenExpiry - 300000
SpartanTokenFresh(t, now) ==
    t.spartanTokenExpiry # 0 /\ now < t.spartanTokenExpiry - ExpiryMargin

Call(fn, arg) == [fn |-> fn, arg |-> arg]

MaxRuns == 3

\* the time between the end of one run and the start of the next, and the
\* time the requests of a refresh or of a sign-in take
Gaps == {1, 3299999, 3300000, 3600001}
Delays == {0, 1000}

InitAuth ==
    /\ IdleAuth
    /\ IdleZlib /\ IdleComponents /\ IdleGamertags /\ IdleLoader /\ IdleEvents
    /\ IdlePositions
    /\ IdleXuids
    /\ IdlePlayers
    /\ IdleWait
    /\ IdleReader

\* main starts: loadConfig, loadTokens, needsAuth = true
StartRun ==
    /\ mainPc \in {"idle", "done", "failed"}
    /\ runs < MaxRuns
    /\ runs' = runs + 1
    /\ \E gap \in Gaps : clock' = clock + gap
    /\ startedAt' = clock'
    /\ tokens' = tokensJson
    /\ loaded' = tokensJson
    /\ needsAuth' = TRUE
    /\ calls' = << >>
    /\ mainPc' = "loaded"
    /\ UNCHANGED <<tokensJson, issued>>
    /\ UNCHANGED <<zvars, cvars, gvars, lvars, evars, posvars, xvars, jvars, wvars, rvars>>

\* the tests of the stored tokens
CheckStored ==
    /\ mainPc = "loaded"
    /\ IF HasStoredTokens(tokens)
         THEN IF SpartanTokenFresh(tokens, clock)
                THEN needsAuth' = FALSE /\ mainPc' = "fetch"
                ELSE needsAuth' = needsAuth /\ mainPc' = "refresh"
         ELSE needsAuth' = needsAuth /\ mainPc' = "auth"
    /\ UNCHANGED <<tokensJson, clock, startedAt, tokens, loaded, calls, runs, issued>>
    /\ UNCHANGED <<zvars, cvars, gvars, lvars, evars, posvars, xvars, jvars, wvars, rvars>>

\* the try block: refreshAuthentication, tokens = {...}, saveTokens,
\* needsAuth = false; whatever throws in it is caught and main goes on
Refresh ==
    /\ mainPc = "refresh"
    /\ \E response \in OAuthResponses, saved \in BOOLEAN, delay \in Delays :
          /\ clock' = clock + delay
          /\ IF response = "fail"
               THEN /\ calls' = Append(calls, Call("refreshAuthentication",
                                                    tokens.refreshToken))
                    /\ mainPc' = "auth"
                    /\ UNCHANGED <<tokens, tokensJson, needsAuth, issued>>
               ELSE LET refreshed == refreshAuthentication(response,
                                         tokens.refreshToken, issued + 1)
                        built == BuildTokens(refreshed, clock')
                    IN  /\ tokens' = built
                        /\ issued' = issued + 1
                        /\ calls' = calls \o
                              << Call("refreshAuthentication", tokens.refreshToken),
                                 Call("saveTokens", built.spartanToken) >>
                        /\ IF saved
                             THEN /\ tokensJson' = built
                                  /\ needsAuth' = FALSE
                                  /\ mainPc' = "fetch"
                             ELSE /\ UNCHANGED <<tokensJson, needsAuth>>
                                  /\ mainPc' = "auth"
    /\ UNCHANGED <<startedAt, loaded, runs>>
    /\ UNCHANGED <<zvars, cvars, gvars, lvars, evars, posvars, xvars, jvars, wvars, rvars>>

\* if (needsAuth): authenticate, tokens = {...}, saveTokens; what throws
\* here ends main with exit code 1
Authenticate ==
    /\ mainPc = "auth"
    /\ needsAuth
    /\ \E response \in OAuthResponses, saved \in BOOLEAN, delay \in Delays :
          /\ clock' = clock + delay
          /\ IF response = "fail"
               THEN /\ calls' = Append(calls, Call("authenticate", 0))
                    /\ mainPc' = "failed"
                    /\ UNCHANGED <<tokens, tokensJson, issued>>
               ELSE LET authResult == authenticate(response, issued + 1)
                        built == BuildTokens(authResult, clock')
                    IN  /\ tokens' = built
                        /\ issued' = issued + 1
                        /\ calls' = calls \o
                              << Call("authenticate", 0),
                                 Call("saveTokens", built.spartanToken) >>
                        /\ IF saved
                             THEN tokensJson' = built /\ mainPc' = "fetch"
                             ELSE UNCHANGED tokensJson /\ mainPc' = "failed"
    /\ UNCHANGED <<startedAt, needsAuth, loaded, runs>>
    /\ UNCHANGED <<zvars, cvars, gvars, lvars, evars, posvars, xvars, jvars, wvars, rvars>>

\* fetchAndDisplayMatches(tokens.spartanToken, tokens.xuid)
Fetch ==
    /\ mainPc = "fetch"
    /\ tokens.present
    /\ calls' = Append(calls, Call("fetchAndDisplayMatches", tokens.spartanToken))
    /\ mainPc' = "done"
    /\ UNCHANGED <<tokensJson, clock, startedAt, tokens, needsAuth, loaded, runs, issued>>
    /\ UNCHANGED <<zvars, cvars, gvars, lvars, evars, posvars, xvars, jvars, wvars, rvars>>

NextAuth == StartRun \/ CheckStored \/ Refresh \/ Authenticate \/ Fetch

SpecAuth == InitAuth /\ [][NextAuth]_vars

-----------------------------------------------------------------------------
(* The chunk-33 buffers of the XUID search: up to MaxXTokens pieces, each   *)
(* the gamertag "A" in UTF-16LE, the decimal strings "12", "1" and "2", the *)
(* 64-bit little-endian form of 12, a null byte, or 98 null bytes (so that  *)
(* a gamertag lies 99, 100 or 101 bytes from a XUID).  The XUID rosters     *)
(* hold "12", "2", "1" and the 20-digit decimal string of 2^64.             *)

MaxXTokens == 3

XTokens == { <<65, 0>>, <<49, 50>>, <<49>>, <<50>>, <<12, 0, 0, 0, 0, 0, 0, 0>>,
             <<0>>, Zeros(98) }
XInputs == { Flatten(ts) : ts \in SeqsUpTo(XTokens, MaxXTokens) }
\* "18446744073709551616", 2^64
TwoPow64 == <<49, 56, 52, 52, 54, 55, 52, 52, 48, 55, 51, 55, 48, 57, 53, 53, 49, 54, 49, 54>>
XRosters == { << <<49, 50>> >>, << <<50>>, <<49, 50>> >>, << <<49, 50>>, <<50>> >>,
              << <<49>>, <<49>> >>, << <<49>>, TwoPow64 >> }

InitXuids ==
    /\ xdata \in XInputs
    /\ xTags = << <<65>> >>
    /\ xXuids \in XRosters
    /\ xFn = "none"
    /\ xResult = [threw |-> FALSE, map |-> << >>, players |-> << >>]
    /\ IdleZlib /\ IdleComponents /\ IdleGamertags /\ IdleLoader /\ IdleEvents
    /\ IdlePositions /\ IdleAuth
    /\ IdlePlayers
    /\ IdleWait
    /\ IdleReader

CallFindXuids ==
    /\ xFn = "none"
    /\ xFn' = "findXuids"
    /\ xResult' = LET found == findXuids(xdata, xXuids)
                  IN  [threw |-> found.threw, map |-> found.map, players |-> << >>]
    /\ UNCHANGED <<xdata, xTags, xXuids>>
    /\ UNCHANGED <<zvars, cvars, gvars, lvars, evars, posvars, avars, jvars, wvars, rvars>>

\* parseSummary once loadChunk(33) returned xdata
CallParseSummary ==
    /\ xFn = "none"
    /\ xFn' = "parseSummary"
    /\ xResult' = LET r == SummaryOf(xdata, xTags, xXuids)
                  IN  [threw |-> r.threw, map |-> findXuids(xdata, xXuids).map,
                       players |-> IF r.threw THEN << >> ELSE r.summary.players]
    /\ UNCHANGED <<xdata, xTags, xXuids>>
    /\ UNCHANGED <<zvars, cvars, gvars, lvars, evars, posvars, avars, jvars, wvars, rvars>>

NextXuids == CallFindXuids \/ CallParseSummary

SpecXuids == InitXuids /\ [][NextXuids]_vars

-----------------------------------------------------------------------------
(* The chunk-33 buffers of the position window: one record of "A" (a kill  *)
(* at 5 ms) at an offset g of 198 to 204, a triplet (128.0, 128.0, 0.0) or *)
(* 12 null bytes up to MaxShift bytes from the buffer start, and the same  *)
(* triplet 296 to 300 bytes after g, at the buffer end or one byte before  *)
(* it.                                                                     *)

MaxShift == 3

MapTriplet == <<0, 0, 0, 67, 0, 0, 0, 67, 0, 0, 0, 0>>
WindowBuffer(a, first, b, c, d) ==
    Zeros(a) \o first \o Zeros(186 + b) \o PlayerRecord(65, 256, 5, Zeros(10))
    \o Zeros(232 + c) \o MapTriplet \o Zeros(d)
WInputs ==
    { WindowBuffer(a, first, b, c, d) :
        a \in 0..MaxShift, first \in { MapTriplet, Zeros(12) }, b \in 0..MaxShift,
        c \in 0..(MaxShift + 1), d \in 0..1 }

InitWindows ==
    /\ edata \in WInputs
    /\ eRoster = << <<65>> >>
    /\ eFn = "none"
    /\ eResult = << >>
    /\ IdleZlib /\ IdleComponents /\ IdleGamertags /\ IdleLoader /\ IdlePositions /\ IdleAuth
    /\ IdleXuids
    /\ IdlePlayers
    /\ IdleWait
    /\ IdleReader

SpecWindows == InitWindows /\ [][NextEvents]_vars

-----------------------------------------------------------------------------
(* players.json between the gamertag lookup tool (fetch-gamertags) and the *)
(* film-parser CLI (parse-film).  A JSON value is [type |-> "array",       *)
(* items], [type |-> "object", fields], [type |-> "string", value] or      *)
(* [type |-> "undefined"]; JSON.stringify followed by JSON.parse keeps the *)
(* arrays, the objects and the strings as they are.                        *)

JArray(items) == [type |-> "array", items |-> items]
JObject(fields) == [type |-> "object", fields |-> fields]
JString(value) == [type |-> "string", value |-> value]
JUndefined == [type |-> "undefined"]

\* value.name
Property(value, name) ==
    IF value.type = "object"
    THEN (IF name \in DOMAIN value.fields THEN value.fields[name] ELSE JUndefined)
    ELSE JUndefined

\* the PlayerInfo fetchGamertags builds from one profile user: the xuid and
\* the settings it knows, the last of each id winning
SettingKey(id) ==
    CASE id = "Gamertag" -> "gamertag"
      [] id = "ModernGamertag" -> "modernGamertag"
      [] id = "ModernGamertagSuffix" -> "modernGamertagSuffix"
      [] id = "UniqueModernGamertag" -> "uniqueModernGamertag"
      [] OTHER -> ""
PlayerInfoOf(user) ==
    LET keys == { SettingKey(user.settings[k].id) : k \in 1..Len(user.settings) } \ {""}
        last(key) == CHOOSE k \in 1..Len(user.settings) :
                        /\ SettingKey(user.settings[k].id) = key
                        /\ \A m \in (k + 1)..Len(user.settings) :
                              SettingKey(user.settings[m].id) # key
    IN  JObject([key \in keys \cup {"xuid"} |->
                   IF key = "xuid" THEN JString(user.id)
                   ELSE JString(user.settings[last(key)].value)])

\* what fetch-gamertags main writes: JSON.stringify(players, null, 2)
PlayersFile(users) == JArray([k \in 1..Len(users) |-> PlayerInfoOf(users[k])])

RosterError == [kind |-> "error", gamertags |-> << >>, xuids |-> << >>]

\* p.settings.find(s => s.id === 'Gamertag')?.value ?? '' for one profile
\* user; "TypeError" when p.settings is not an array
GamertagOf(p) ==
    LET settings == Property(p, "settings")
    IN  IF settings.type # "array" THEN "TypeError"
        ELSE LET hits == { k \in 1..Len(settings.items) :
                             Property(settings.items[k], "id") = JString("Gamertag") }
             IN  IF hits = {} THEN ""
                 ELSE LET v == Property(settings.items[Min(hits)], "value")
                      IN  IF v.type = "string" THEN v.value ELSE ""

\* extractGamertags and extractXuids on the parsed players.json
ExtractRoster(players) ==
    LET profileUsers == Property(players, "profileUsers")
    IN  IF profileUsers.type # "array" THEN RosterError
        ELSE LET users == profileUsers.items
                 tags == [k \in 1..Len(users) |-> GamertagOf(users[k])]
             IN  IF \E k \in 1..Len(users) : tags[k] = "TypeError" THEN RosterError
                 ELSE [kind |-> "ok",
                       gamertags |-> SelectSeq(tags, LAMBDA g : g # ""),
                       xuids |-> [k \in 1..Len(users) |-> Property(users[k], "id")]]

MaxUsers == 2

ProfileSettings ==
    { << >>,
      << [id |-> "Gamertag", value |-> "A"] >>,
      << [id |-> "Gamertag", value |-> "B"],
         [id |-> "UniqueModernGamertag", value |-> "b#1"] >>,
      << [id |-> "GameDisplayName", value |-> "z"] >>,
      << [id |-> "Gamertag", value |-> ""] >> }
ProfileUsers == { [id |-> id, settings |-> st] : id \in {"1", "2"}, st \in ProfileSettings }

InitPlayers ==
    /\ profileResponse \in SeqsUpTo(ProfileUsers, MaxUsers)
    /\ playersJson = [present |-> FALSE, value |-> [type |-> "null"]]
    /\ fetchPc = "ready"
    /\ roster = [kind |-> "none", gamertags |-> << >>, xuids |-> << >>]
    /\ IdleZlib /\ IdleComponents /\ IdleGamertags /\ IdleLoader /\ IdleEvents
    /\ IdlePositions /\ IdleAuth /\ IdleXuids
    /\ IdleWait
    /\ IdleReader

\* fetch-gamertags main, the match naming the users of the response: no
\* file is written for a match without XUIDs
FetchGamertagsMain ==
    /\ fetchPc = "ready"
    /\ fetchPc' = "done"
    /\ playersJson' = IF Len(profileResponse) = 0 THEN playersJson
                      ELSE [present |-> TRUE, value |-> PlayersFile(profileResponse)]
    /\ UNCHANGED <<profileResponse, roster>>
    /\ UNCHANGED <<zvars, cvars, gvars, lvars, evars, posvars, avars, xvars, wvars, rvars>>

\* parse-film main up to the construction of the FilmParser
ParseFilmMain ==
    /\ roster.kind = "none"
    /\ roster' = IF playersJson.present THEN ExtractRoster(playersJson.value)
                 ELSE [kind |-> "ok", gamertags |-> << >>, xuids |-> << >>]
    /\ UNCHANGED <<profileResponse, playersJson, fetchPc>>
    /\ UNCHANGED <<zvars, cvars, gvars, lvars, evars, posvars, avars, xvars, wvars, rvars>>

NextPlayers == FetchGamertagsMain \/ ParseFilmMain

SpecPlayers == InitPlayers /\ [][NextPlayers]_vars

-----------------------------------------------------------------------------
(* waitForAuthCode.  The code parameter of a request is [present, value]:  *)
(* searchParams.get('code') is null when the query has no code and the     *)
(* empty string for "?code=".  A promise settles once: resolve and reject  *)
(* on a settled promise change nothing.  The close of the server stops it  *)
(* from accepting connections; a connection accepted earlier may stay open *)
(* and deliver further requests.                                           *)

NoCode == [present |-> FALSE, value |-> ""]
CodeParam(value) == [present |-> TRUE, value |-> value]

Settle(p, state, value) ==
    IF p.state = "pending" THEN [state |-> state, value |-> value] ELSE p

\* the handler mutated: if (code !== null)
HandleRequestNotNull(code, srv, p) ==
    IF code.present
    THEN [status |-> 200, server |-> "closed", promise |-> Settle(p, "resolved", code.value),
          resolved |-> 1]
    ELSE [status |-> 400, server |-> srv, promise |-> p, resolved |-> 0]

\* the request handler: the status answered, the server and the promise
\* after it, and how often it called resolve
HandleRequest(code, srv, p) ==
    IF code.present /\ code.value # ""
    THEN [status |-> 200, server |-> "closed", promise |-> Settle(p, "resolved", code.value),
          resolved |-> 1]
    ELSE [status |-> 400, server |-> srv, promise |-> p, resolved |-> 0]

MaxRequests == 3

CodeParams == { NoCode, CodeParam(""), CodeParam("c1"), CodeParam("c2") }

InitWait ==
    /\ server = "starting"
    /\ keepAlive = FALSE
    /\ promise = [state |-> "pending", value |-> ""]
    /\ requests = << >>
    /\ resolveCalls = 0
    /\ IdleZlib /\ IdleComponents /\ IdleGamertags /\ IdleLoader /\ IdleEvents
    /\ IdlePositions /\ IdleAuth /\ IdleXuids /\ IdlePlayers
    /\ IdleReader

\* server.listen succeeded
Listen ==
    /\ server = "starting"
    /\ server' = "listening"
    /\ UNCHANGED <<keepAlive, promise, requests, resolveCalls>>
    /\ UNCHANGED <<zvars, cvars, gvars, lvars, evars, posvars, avars, xvars, jvars, rvars>>

\* the server emits 'error' (the port is in use): reject
ServerError ==
    /\ server = "starting"
    /\ server' = "failed"
    /\ promise' = Settle(promise, "rejected", "")
    /\ UNCHANGED <<keepAlive, requests, resolveCalls>>
    /\ UNCHANGED <<zvars, cvars, gvars, lvars, evars, posvars, avars, xvars, jvars, rvars>>

\* a request arrives, on a new connection or on one that stayed open
Request ==
    /\ server = "listening" \/ (server = "closed" /\ keepAlive)
    /\ Len(requests) < MaxRequests
    /\ \E code \in CodeParams, stays \in BOOLEAN :
          LET h == HandleRequest(code, server, promise)
          IN  /\ server' = h.server
              /\ promise' = h.promise
              /\ resolveCalls' = resolveCalls + h.resolved
              /\ requests' = Append(requests, [code |-> code, status |-> h.status])
              /\ keepAlive' = IF server = "listening" /\ h.server = "listening"
                              THEN FALSE ELSE stays
    /\ UNCHANGED <<zvars, cvars, gvars, lvars, evars, posvars, avars, xvars, jvars, rvars>>

NextWait == Listen \/ ServerError \/ Request

SpecWait == InitWait /\ [][NextWait]_vars

-----------------------------------------------------------------------------
(* Buffer Reading Utilities: the BufferReader.  A typed read of Buffer     *)
(* (readUInt8, readUInt16LE, ...) throws a RangeError unless its bytes lie *)
(* inside the buffer; subarray clamps its range to the buffer instead.     *)
(* What a call returned is kept as a sequence: the number read, the two    *)
(* 32-bit halves of a 64-bit number, the sign and the bits of a float, the *)
(* bytes of a Buffer, the code units of a string.                          *)

ReadResult(op, from, size, threw, value) ==
    [op |-> op, from |-> from, size |-> size, before |-> roffset, threw |-> threw,
     value |-> value]

InBuffer(data, off, size) == off >= 0 /\ off + size <= Len(data)

\* this.buffer.read<Type>(off) of `size` bytes: [threw, value]
TypedRead(data, op, off, size) ==
    IF ~InBuffer(data, off, size) THEN [threw |-> TRUE, value |-> << >>]
    ELSE [threw |-> FALSE,
          value |-> CASE size = 1 -> << At(data, off) >>
                      [] size = 2 -> << ReadUInt16LE(data, off) >>
                      [] size = 8 -> << ReadUInt32LE(data, off), ReadUInt32LE(data, off + 4) >>
                      [] op = "readFloatLE" ->
                           << IF ReadFloatLE(data, off).neg THEN 1 ELSE 0,
                              ReadFloatLE(data, off).mag >>
                      [] OTHER -> << ReadUInt32LE(data, off) >>]

\* a read<Type>() of the reader: the offset moves only when the read returned
ReaderRead(op, size) ==
    LET r == TypedRead(rbuf, op, roffset, size)
    IN  /\ rLast' = ReadResult(op, roffset, size, r.threw, r.value)
        /\ roffset' = IF r.threw THEN roffset ELSE roffset + size
        /\ UNCHANGED rbuf

\* the loop of readUTF16LEString: the index of the first aligned pair of
\* null bytes, or where the pairs end
RECURSIVE Utf16End(_, _)
Utf16End(bytes, end) ==
    IF ~(end < Len(bytes) - 1) THEN end
    ELSE IF At(bytes, end) = 0 /\ At(bytes, end + 1) = 0 THEN end
    ELSE Utf16End(bytes, end + 2)

\* bytes.toString('utf16le'): the code units of the whole pairs
Utf16Units(bytes) ==
    [k \in 1..(Len(bytes) \div 2) |-> bytes[2 * k - 1] + 256 * bytes[2 * k]]

\* the buffers: up to MaxRTokens pieces, each "A" in UTF-16LE, the byte 65
\* or 4 null bytes
MaxRTokens == 3

RTokens == { <<65, 0>>, <<65>>, <<0, 0, 0, 0>> }
RInputs == { Flatten(ts) : ts \in SeqsUpTo(RTokens, MaxRTokens) }
MaxRLen == 4 * MaxRTokens
ROffsets == (0 - 1)..(MaxRLen + 1)
RCounts == 0..3

InitReader ==
    /\ rbuf \in RInputs
    /\ roffset = 0
    /\ rLast = [op |-> "new", from |-> 0, size |-> 0, before |-> 0, threw |-> FALSE,
                value |-> << >>]
    /\ IdleZlib /\ IdleComponents /\ IdleGamertags /\ IdleLoader /\ IdleEvents
    /\ IdlePositions /\ IdleAuth /\ IdleXuids /\ IdlePlayers /\ IdleWait

OtherThanReader == <<zvars, cvars, gvars, lvars, evars, posvars, avars, xvars, jvars, wvars>>

seek ==
    /\ \E offset \in ROffsets :
          /\ roffset' = offset
          /\ rLast' = ReadResult("seek", offset, 0, FALSE, << >>)
    /\ UNCHANGED rbuf
    /\ UNCHANGED OtherThanReader

skip ==
    /\ \E bytes \in {0 - 1, 1, 2} :
          /\ roffset + bytes \in ROffsets
          /\ roffset' = roffset + bytes
          /\ rLast' = ReadResult("skip", roffset, 0, FALSE, << >>)
    /\ UNCHANGED rbuf
    /\ UNCHANGED OtherThanReader

readUInt8 == ReaderRead("readUInt8", 1) /\ UNCHANGED OtherThanReader
readUInt16LE == ReaderRead("readUInt16LE", 2) /\ UNCHANGED OtherThanReader
readUInt32LE == ReaderRead("readUInt32LE", 4) /\ UNCHANGED OtherThanReader
readInt32LE == ReaderRead("readInt32LE", 4) /\ UNCHANGED OtherThanReader
readBigUInt64LE == ReaderRead("readBigUInt64LE", 8) /\ UNCHANGED OtherThanReader
readFloatLE == ReaderRead("readFloatLE", 4) /\ UNCHANGED OtherThanReader

readBytes ==
    /\ \E count \in RCounts :
          /\ roffset + count \in ROffsets
          /\ rLast' = ReadResult("readBytes", roffset, count, FALSE,
                                 Subarray(rbuf, roffset, roffset + count))
          /\ roffset' = roffset + count
    /\ UNCHANGED rbuf
    /\ UNCHANGED OtherThanReader

readUTF16LEString ==
    /\ \E byteLength \in RCounts :
          LET bytes == Subarray(rbuf, roffset, roffset + byteLength)
          IN  /\ roffset + byteLength \in ROffsets
              /\ rLast' = ReadResult("readUTF16LEString", roffset, byteLength, FALSE,
                                     Utf16Units(Subarray(bytes, 0, Utf16End(bytes, 0))))
              /\ roffset' = roffset + byteLength
    /\ UNCHANGED rbuf
    /\ UNCHANGED OtherThanReader

\* peekUInt16LE, peekUInt32LE
peekUInt ==
    /\ \E size \in {2, 4}, relativeOffset \in 0..1 :
          LET r == TypedRead(rbuf, "peekUInt", roffset + relativeOffset, size)
          IN  rLast' = ReadResult(IF size = 2 THEN "peekUInt16LE" ELSE "peekUInt32LE",
                                  roffset + relativeOffset, size, r.threw, r.value)
    /\ UNCHANGED <<rbuf, roffset>>
    /\ UNCHANGED OtherThanReader

peekBytes ==
    /\ \E count \in RCounts, relativeOffset \in 0..1 :
          rLast' = ReadResult("peekBytes", roffset + relativeOffset, count, FALSE,
                              Subarray(rbuf, roffset + relativeOffset,
                                       roffset + relativeOffset + count))
    /\ UNCHANGED <<rbuf, roffset>>
    /\ UNCHANGED OtherThanReader

NextReader ==
    \/ seek \/ skip \/ readUInt8 \/ readUInt16LE \/ readUInt32LE \/ readInt32LE
    \/ readBigUInt64LE \/ readFloatLE \/ readBytes \/ readUTF16LEString
    \/ peekUInt \/ peekBytes

SpecReader == InitReader /\ [][NextReader]_vars

-----------------------------------------------------------------------------
(* The claims *)

\* C1: isZlibCompressed(b) is true if and only if b has at least 2 bytes,
\* b[0] = 0x78 and b[1] is one of 0x5E, 0x9C, 0xDA, 0x01; it is false for
\* every buffer of length 0 or 1.
C1_IsZlibCompressedIff ==
    zIsResult.called =>
        /\ zIsResult.value <=>
              (Len(zdata) >= 2 /\ zdata[1] = 120 /\ zdata[2] \in {94, 156, 218, 1})
        /\ Len(zdata) < 2 => ~zIsResult.value

\* a buffer with the flag byte 0x01 was found compressed
C1_Witness ==
    /\ zIsResult.called /\ zIsResult.value
    /\ Len(zdata) >= 2 /\ zdata[2] = 1

\* C2: decompressChunk fails with the header error, and never calls inflate,
\* for a buffer shorter than 2 bytes or not starting with 0x78; a buffer that
\* passes the header check and is no valid zlib stream (such as [0x78, 0x01])
\* fails with the decompression error that wraps the inflate error, never
\* with the header error.
C2_FailureOrder ==
    zDecResult.outcome.kind # "none" =>
        LET out == zDecResult.outcome
            headerBad == Len(zdata) < 2 \/ zdata[1] # 120
        IN  /\ headerBad =>
                  /\ out.kind = "error"
                  /\ out.message = (IF Len(zdata) < 2 THEN MsgTooShort ELSE MsgBadHeader)
                  /\ ~zDecResult.inflated
            /\ ~headerBad =>
                  /\ zDecResult.inflated
                  /\ (\A r \in inflateSync(zdata) : r.kind = "error") =>
                        /\ out.kind = "error"
                        /\ out.message = MsgInflateFailed
                        /\ Thrown("inflate", out.cause) \in inflateSync(zdata)
                  /\ out.kind = "error" => out.message = MsgInflateFailed
            /\ zdata = <<120, 1>> => out = Thrown(MsgInflateFailed, "unexpected end of file")

\* decompressChunk([0x78, 0x01]) failed with the decompression error
C2_Witness ==
    /\ zdata = <<120, 1>>
    /\ zDecResult.inflated
    /\ zDecResult.outcome.message = MsgInflateFailed

LoaderHasDec(i) == DecKey(i) \in DOMAIN dir
LoaderHasRaw(i) == RawKey(i) \in DOMAIN dir
AcceptedHeader(b) == Len(b) >= 2 /\ b[1] = 120 /\ b[2] \in {94, 156, 218, 1}

\* C3: when filmChunk<i>_dec exists, loadChunk(i) returns exactly that
\* file's bytes (the read of it is the only read, and its outcome the
\* outcome of loadChunk), never reads or decompresses filmChunk<i> and
\* applies no zlib check; filmChunk<i> is read only when the cached file is
\* absent, and the not-found error is raised exactly when both are absent.
C3_CachedFormPreferred ==
    lcCall.called =>
        LET i == lcCall.index
        IN  /\ LoaderHasDec(i) =>
                  /\ dir[DecKey(i)].readable => lcCall.outcome = Ok(dir[DecKey(i)].bytes)
                  /\ ~dir[DecKey(i)].readable => lcCall.outcome = Thrown(MsgReadFailed, "")
                  /\ lcCall.reads = <<DecKey(i)>>
                  /\ ~lcCall.zlibChecked
                  /\ lcCall.decompressCalls = 0
            /\ (\E k \in 1..Len(lcCall.reads) : lcCall.reads[k] = RawKey(i)) => ~LoaderHasDec(i)
            /\ (lcCall.outcome.kind = "error" /\ lcCall.outcome.message = MsgNotFound)
                  <=> (~LoaderHasDec(i) /\ ~LoaderHasRaw(i))

\* both files exist, the cached bytes start like a zlib stream and are
\* returned as they are
C3_Witness ==
    /\ lcCall.called
    /\ LoaderHasDec(lcCall.index) /\ LoaderHasRaw(lcCall.index)
    /\ dir[DecKey(lcCall.index)].bytes = <<120, 1>>
    /\ lcCall.outcome = Ok(<<120, 1>>)

\* C4: when only the compressed-form file exists and isZlibCompressed is
\* false for its bytes (length 0 or 1, or 0x78 followed by a byte that is
\* not an accepted flag), loadChunk returns the bytes unchanged and raises
\* no error; decompressChunk is called exactly when isZlibCompressed is true.
C4_UncompressedPassthrough ==
    lcCall.called =>
        LET i == lcCall.index
            rawRead == ~LoaderHasDec(i) /\ LoaderHasRaw(i) /\ dir[RawKey(i)].readable
        IN  /\ (rawRead /\ ~AcceptedHeader(dir[RawKey(i)].bytes)) =>
                  /\ lcCall.outcome = Ok(dir[RawKey(i)].bytes)
                  /\ lcCall.decompressCalls = 0
            /\ (rawRead /\ AcceptedHeader(dir[RawKey(i)].bytes)) => lcCall.decompressCalls = 1
            /\ lcCall.decompressCalls # 0 =>
                  /\ lcCall.decompressCalls = 1
                  /\ rawRead /\ AcceptedHeader(dir[RawKey(i)].bytes)
                  /\ lcCall.zlibChecked

\* only filmChunk<i> exists, it holds 0x78 0x20, and loadChunk returned it
C4_Witness ==
    /\ lcCall.called
    /\ ~LoaderHasDec(lcCall.index) /\ LoaderHasRaw(lcCall.index)
    /\ dir[RawKey(lcCall.index)].bytes = <<120, 32>>
    /\ lcCall.outcome = Ok(<<120, 32>>)

ChunkUnloadable(i) == \A r \in loadChunk(dir, i) : r.outcome.kind = "error"
ReadsOfChunk(reads, i) == { k \in 1..Len(reads) : reads[k][1] = i }

\* C5: parse() fails with an error and returns no FilmSummary, partial or
\* not, whenever chunk 0 or chunk 33 cannot be loaded; chunk 0 is loaded and
\* its catalog extracted before the load of chunk 33 starts, so when chunk 0
\* cannot be loaded chunk 33 is never read, and each chunk is loaded at most
\* once per parse() call.
C5_ParseFailsOnMissingChunk ==
    /\ (ppc # "idle" /\ ChunkUnloadable(0)) =>
          /\ ppc = "failed"
          /\ pResult.kind = "error" /\ pResult.summary = << >>
          /\ pLoads = <<0>>
          /\ ReadsOfChunk(pReads, SummaryChunk) = {}
    /\ (ppc \in {"done", "failed"} /\ ChunkUnloadable(SummaryChunk)) =>
          /\ ppc = "failed"
          /\ pResult.kind = "error" /\ pResult.summary = << >>
    /\ pLoads \in { << >>, <<0>>, <<0, SummaryChunk>> }
    /\ ppc = "idle" <=> pLoads = << >>
    /\ ppc = "initial" => (pLoads = <<0>> /\ ~ChunkUnloadable(0) /\ pResult.kind = "none")
    /\ pLoads = <<0, SummaryChunk>> => ~ChunkUnloadable(0)
    /\ ppc = "done" <=> pResult.kind = "ok"
    /\ \A i \in {0, SummaryChunk} : Cardinality(ReadsOfChunk(pReads, i)) <= 1

\* chunk 0 was loaded and its catalog extracted, chunk 33 is missing, and
\* parse() failed
C5_Witness ==
    /\ ppc = "failed"
    /\ pLoads = <<0, SummaryChunk>>
    /\ Len(pComponents) = 1
    /\ ~LoaderHasDec(SummaryChunk) /\ ~LoaderHasRaw(SummaryChunk)
    /\ pResult.message = MsgNotFound

FileSize(key) == IF key \in DOMAIN dir THEN Len(dir[key].bytes) ELSE 0
FileReadable(key) == key \in DOMAIN dir => dir[key].readable
ChunkReported(i) ==
    /\ FileReadable(RawKey(i)) /\ FileReadable(DecKey(i))
    /\ (FileSize(RawKey(i)) > 0 \/ FileSize(DecKey(i)) > 0)
ReportedIndices == { gciCall.chunks[k].index : k \in 1..Len(gciCall.chunks) }

\* C6: getChunkInfo() completes without raising for every combination of
\* present and absent files, also when chunks 0 and 33 are absent and when a
\* read fails, and whether or not parse() was called: its result is decided
\* by the directory alone; it lists indices of 0..33 in strictly ascending
\* order, each at most once.
C6_GetChunkInfoNeverRaises ==
    gciCall.called =>
        /\ ~gciCall.raised
        /\ \A k \in 1..Len(gciCall.chunks) : gciCall.chunks[k].index \in 0..33
        /\ \A j, k \in 1..Len(gciCall.chunks) :
              j < k => gciCall.chunks[j].index < gciCall.chunks[k].index
        /\ ReportedIndices = { i \in 0..33 : ChunkReported(i) }

\* chunks 0 and 33 are absent, a read of a file of chunk 5 fails, parse() has
\* failed, and getChunkInfo() returned
C6_Witness ==
    /\ gciCall.called /\ ~gciCall.raised
    /\ ppc = "failed"
    /\ \A i \in {0, SummaryChunk} : ~LoaderHasDec(i) /\ ~LoaderHasRaw(i)
    /\ LoaderHasRaw(5) /\ ~dir[RawKey(5)].readable

\* C7: getChunkInfo() reports an entry for index i if and only if at least
\* one of filmChunk<i> and filmChunk<i>_dec exists; when only the compressed
\* file exists the entry has decompressedSize = 0 and type = 0.
C7_EntryIffFileExists ==
    gciCall.called =>
        /\ \A i \in 0..33 : i \in ReportedIndices <=> (LoaderHasRaw(i) \/ LoaderHasDec(i))
        /\ \A k \in 1..Len(gciCall.chunks) :
              LET e == gciCall.chunks[k]
              IN  (LoaderHasRaw(e.index) /\ ~LoaderHasDec(e.index)) =>
                      (e.decompressedSize = 0 /\ e.type = 0)

\* the occurrences of "-component\0" in the buffer, each with the start of
\* the printable run that ends at its null byte
ComponentOccurrences ==
    { [name |-> Subarray(cdata, s, m + 10), offset |-> s, match |-> m] :
        <<s, m>> \in { p \in (0..Len(cdata)) \X (0..Len(cdata)) :
            /\ MatchesAt(cdata, componentPattern, p[2])
            /\ p[1] <= p[2]
            /\ \A q \in p[1]..(p[2] + 9) : At(cdata, q) >= 32 /\ At(cdata, q) < 127
            /\ p[1] > 0 => (At(cdata, p[1] - 1) < 32 \/ At(cdata, p[1] - 1) >= 127) } }

\* C8: the list returned by parseComponentDefinitions has no two entries
\* with equal name; the entry kept for a name is the one of its first
\* (lowest-offset) occurrence, every name that occurs is kept, and the
\* entries are in ascending discovery order.
C8_UniqueNamesFirstWins ==
    cpc = "done" =>
        /\ \A j, k \in 1..Len(cResult) : j # k => cResult[j].name # cResult[k].name
        /\ \A k \in 1..Len(cResult) :
              /\ \E o \in ComponentOccurrences :
                    o.name = cResult[k].name /\ o.offset = cResult[k].offset
              /\ \A o \in ComponentOccurrences :
                    o.name = cResult[k].name => cResult[k].offset <= o.offset
        /\ \A o \in ComponentOccurrences : \E k \in 1..Len(cResult) : cResult[k].name = o.name
        /\ \A j, k \in 1..Len(cResult) : j < k => cResult[j].offset < cResult[k].offset

\* a name occurs twice and a second name after it: two entries are returned
C8_Witness ==
    /\ cpc = "done"
    /\ Len(cResult) = 2
    /\ Cardinality(ComponentOccurrences) = 3
    /\ cResult[1].offset = 0

\* C9: the N entries returned by parseComponentDefinitions carry the indices
\* 0, 1, ..., N-1 in list order, with no gaps, also when the buffer holds
\* the same component name more than once.
C9_SequentialIndices ==
    cpc = "done" => \A k \in 1..Len(cResult) : cResult[k].index = k - 1

\* C10: the list returned by findGamertags has no two entries with equal
\* offset, also for a roster with repeated gamertags or with gamertags that
\* are prefixes of one another, and the call with the roster repeated twice
\* returns the same list as the call with the roster once.
C10_UniqueOffsetsIdempotent ==
    gpc = "returned" =>
        /\ \A j, k \in 1..Len(gScan.players) :
              j # k => gScan.players[j].offset # gScan.players[k].offset
        /\ gCall = 2 => gScan.players = gFirst

\* the roster <<"A", "AB">> on a buffer where both match at one offset: the
\* second call returned, and the list holds that offset for "A"
C10_Witness ==
    /\ gpc = "returned" /\ gCall = 2
    /\ gRoster = << <<65>>, <<65, 66>> >>
    /\ Len(gFirst) >= 1
    /\ MatchesAt(gdata, <<65, 0, 66, 0>>, gFirst[1].offset)
    /\ gFirst[1].gamertag = <<65>>

\* the little-endian uint32 of the four bytes at off, for off + 4 <= length
TeamIdField(off) ==
    gdata[off + 1] + 256 * gdata[off + 2] + 65536 * gdata[off + 3] + 16777216 * gdata[off + 4]

\* C11: for every gamertag occurrence at offset o in a buffer of length L:
\* if o+40 does not exceed L, filmTeamId is the little-endian uint32 at o+36
\* when that value is in 0..7 and -1 otherwise; if o+40 exceeds L,
\* filmTeamId is -1; in every case filmTeamId is in -1..7.
C11_TeamIdWithinBounds ==
    gpc = "returned" =>
        \A k \in 1..Len(gScan.players) :
            LET p == gScan.players[k]
            IN  /\ p.filmTeamId \in -1..7
                /\ p.offset + 40 <= Len(gdata) =>
                      p.filmTeamId = (IF TeamIdField(p.offset + 36) \in 0..7
                                      THEN TeamIdField(p.offset + 36) ELSE -1)
                /\ p.offset + 40 > Len(gdata) => p.filmTeamId = -1

\* the offsets at which a gamertag occurs in the buffer of the event call
EOccurrences(gamertag) ==
    { o \in 0..(Len(edata) - 1) :
        /\ o + 2 * Len(gamertag) <= Len(edata)
        /\ \A k \in 1..Len(gamertag) :
              edata[o + 2 * k - 1] = gamertag[k] /\ edata[o + 2 * k] = 0 }
\* the uint16 and the uint32 of the probe of the occurrence at o
ProbeType(o) == edata[o + 49] + 256 * edata[o + 50]
ProbeTime(o) ==
    edata[o + 51] + 256 * edata[o + 52] + 65536 * edata[o + 53] + 16777216 * edata[o + 54]
ECeiling == IF eFn = "parseEventsWithPositions" THEN 700000 ELSE 3600000
ProbeRead(o) == o + 48 + 8 < Len(edata)
ProbeValid(o) == ProbeType(o) % 256 = 0 /\ ProbeType(o) <= 2304 /\ ProbeTime(o) < ECeiling
\* the occurrences that give an event, as <<roster index, offset>>
EventKeys ==
    UNION { { <<k, o>> : o \in { oc \in EOccurrences(eRoster[k]) :
                                   ProbeRead(oc) /\ ProbeValid(oc) } } :
            k \in 1..Len(eRoster) }
KeyBefore(a, b) == a[1] < b[1] \/ (a[1] = b[1] /\ a[2] < b[2])
KeyTriple(key) ==
    [timestamp |-> ProbeTime(key[2]), eventType |-> ProbeType(key[2]),
     playerGamertag |-> eRoster[key[1]]]
\* the events in discovery order: roster order, then ascending offset
Discovered ==
    LET keys == EventKeys
    IN  [p \in 1..Cardinality(keys) |->
            KeyTriple(CHOOSE key \in keys :
                         Cardinality({ q \in keys : KeyBefore(q, key) }) = p - 1)]
Triple(e) ==
    [timestamp |-> e.timestamp, eventType |-> e.eventType,
     playerGamertag |-> e.playerGamertag]
ResultTriples == [i \in 1..Len(eResult) |-> Triple(eResult[i])]
AtTime(triples, t) == SelectSeq(triples, LAMBDA e : e.timestamp = t)
RECURSIVE RunHeads(_)
RunHeads(triples) ==
    IF Len(triples) <= 1 THEN triples
    ELSE IF triples[1] = triples[2] THEN RunHeads(Tail(triples))
    ELSE <<triples[1]>> \o RunHeads(Tail(triples))

\* C12: for every buffer and roster, the lists returned by parseEvents and
\* parseEventsWithPositions are sorted non-decreasing by timestamp, and
\* events with equal timestamps keep their discovery order (roster order of
\* the gamertag, then ascending occurrence offset).
C12_SortedStable ==
    eFn # "none" =>
        LET found == Discovered
            returned == ResultTriples
        IN  /\ \A i \in 1..(Len(eResult) - 1) :
                  eResult[i].timestamp <= eResult[i + 1].timestamp
            /\ \A i, j \in 1..Len(eResult) :
                  (i < j /\ eResult[i].timestamp = eResult[j].timestamp) =>
                      \E p, q \in 1..Len(found) :
                          /\ p < q
                          /\ found[p] = returned[i]
                          /\ found[q] = returned[j]

\* an event found later in the buffer has the earlier timestamp and comes
\* first, and two different events of one timestamp were returned
C12_Witness ==
    /\ eFn # "none"
    /\ Len(eResult) = 3
    /\ eResult[1].timestamp = 5 /\ eResult[2].timestamp = 5
    /\ eResult[1].eventType # eResult[2].eventType
    /\ eResult[3].timestamp = 699999
    /\ Discovered[1].timestamp = 699999

C14_ProbeAcceptance ==
    eFn # "none" =>
        /\ { ResultTriples[i] : i \in 1..Len(eResult) } = { KeyTriple(key) : key \in EventKeys }
        /\ \A i \in 1..Len(eResult) :
              /\ eResult[i].eventTypeName = EventTypeName(eResult[i].eventType)
              /\ eResult[i].eventType = 256 => eResult[i].eventTypeName = <<"kill">>
              /\ eResult[i].eventType = 512 => eResult[i].eventTypeName = <<"death">>

\* parseEvents on a buffer with a probe of timestamp 3,600,000 and one of
\* 700,000: only the second became an event, a kill
C14_Witness ==
    /\ eFn = "parseEvents"
    /\ \E o \in EOccurrences(<<65>>) : ProbeRead(o) /\ ProbeTime(o) = 3600000
    /\ Len(eResult) = 1
    /\ eResult[1].timestamp = 700000
    /\ eResult[1].eventTypeName = <<"kill">>
    /\ eResult[1].playerGamertag = <<65>>

\* C19: for every gamertag occurrence at offset o in a buffer of length L,
\* parseEvents reads and evaluates the event probe at o+48 whenever at least
\* 8 bytes remain from the probe offset, that is whenever L - (o+48) >= 8,
\* and skips the probe only when fewer than 8 bytes remain.
C19_ProbeWhenEightBytesRemain ==
    eFn = "parseEvents" =>
        \A k \in 1..Len(eRoster) : \A o \in EOccurrences(eRoster[k]) :
            (Len(edata) - (o + 48) >= 8 /\ ProbeValid(o)) =>
                \E i \in 1..Len(eResult) : ResultTriples[i] = KeyTriple(<<k, o>>)

\* C20: every event returned by parseEvents or parseEventsWithPositions has
\* a rawData of exactly 16 bytes, equal to the buffer bytes at probe offset
\* .. probe offset + 15, also when the accepted probe lies fewer than 16
\* bytes before the end of the buffer.
C20_RawDataSixteenBytes ==
    eFn # "none" =>
        \A i \in 1..Len(eResult) :
            /\ Len(eResult[i].rawData) = 16
            /\ \E key \in EventKeys :
                  /\ KeyTriple(key) = ResultTriples[i]
                  /\ key[2] + 64 <= Len(edata)
                  /\ eResult[i].rawData = SubSeq(edata, key[2] + 49, key[2] + 64)

\* the float at offset off of the position buffer: its sign and the 31 bits
\* of its magnitude
PosFloat(off) ==
    [neg |-> posData[off + 4] >= 128,
     mag |-> posData[off + 1] + 256 * posData[off + 2] + 65536 * posData[off + 3]
             + 16777216 * (posData[off + 4] % 128)]

\* C15: every sample returned by extractPositions has x, y and z finite and
\* each within [-600, 600] with at least one component of magnitude above
\* 0.1; every sample returned by extractMapPositions has x and y strictly
\* between -300 and 300, z strictly between -20 and 80, and at least one of
\* |x|, |y| above 30.  Each sample's offset is the offset at which its
\* triplet was read.
C15_PositionRanges ==
    posFn # "none" =>
        \A k \in 1..Len(posResult) :
            LET s == posResult[k]
            IN  /\ s.offset >= 0 /\ s.offset + 12 <= Len(posData)
                /\ s.x = PosFloat(s.offset)
                /\ s.y = PosFloat(s.offset + 4)
                /\ s.z = PosFloat(s.offset + 8)
                /\ \A c \in {s.x, s.y, s.z} : c.mag < 2139095040
                /\ posFn = "extractPositions" =>
                      /\ \A c \in {s.x, s.y, s.z} : c.mag <= 1142292480
                      /\ \E c \in {s.x, s.y, s.z} : c.mag > 1036831948
                /\ posFn = "extractMapPositions" =>
                      /\ s.x.mag < 1133903872 /\ s.y.mag < 1133903872
                      /\ (IF s.z.neg THEN s.z.mag < 1101004800 ELSE s.z.mag < 1117782016)
                      /\ (s.x.mag > 1106247680 \/ s.y.mag > 1106247680)

\* extractMapPositions returned a sample read at offset 4, after a triplet
\* at offset 0 that starts with 300.0 and was not returned
C15_Witness ==
    /\ posFn = "extractMapPositions"
    /\ Len(posResult) = 1
    /\ posResult[1].offset = 4
    /\ PosFloat(0).mag = 1133903872
    /\ posResult[1].x.mag = 1124073472

\* C16: every scanning operation (findGamertags, findXuids, parseEvents,
\* parseEventsWithPositions, extractPositions, extractMapPositions,
\* parseComponentDefinitions, findPlayerEventMarkers) terminates for every
\* finite buffer, every roster of gamertags and XUIDs (an empty-string entry
\* included) and every stride, after a number of steps bounded by the
\* buffer length: a findGamertags call that was started returns.
C16_ScansTerminate == (gpc = "scan") ~> (gpc = "returned")

CallsOf(fn) == { i \in DOMAIN calls : calls[i].fn = fn }
PastTheTests == mainPc \in {"refresh", "auth", "fetch", "done", "failed"}
StartedFresh ==
    /\ loaded.present
    /\ startedAt < loaded.spartanTokenExpiry - ExpiryMargin
StartedStale ==
    /\ loaded.present /\ loaded.spartanToken # 0 /\ loaded.refreshToken # 0
    /\ startedAt >= loaded.spartanTokenExpiry - ExpiryMargin

\* C17: a run that finds a tokens.json saved by an earlier run and starts
\* more than 5 minutes before the saved spartanTokenExpiry calls neither
\* authenticate nor refreshAuthentication and does not rewrite tokens.json
\* before it fetches the matches, whatever the OAuth response of the run
\* that saved the tokens contained.
C17_FreshTokensAreReused ==
    (PastTheTests /\ StartedFresh) =>
        /\ mainPc \in {"fetch", "done"}
        /\ CallsOf("authenticate") = {}
        /\ CallsOf("refreshAuthentication") = {}
        /\ CallsOf("saveTokens") = {}
        /\ tokensJson = loaded

\* C18: a run that finds a non-empty spartanToken and refreshToken in
\* tokens.json, the Spartan token expired or within 5 minutes of its expiry,
\* calls refreshAuthentication once and first.  When the refresh step
\* completes, the refreshed tokens are saved with the expiry now + 3,600,000
\* and authenticate is not called; when it fails, authenticate is called
\* once, its tokens are saved and only then are the matches fetched.  The
\* matches are never fetched with the token found expired.
C18_RefreshThenFallback ==
    (PastTheTests /\ StartedStale) =>
        /\ mainPc = "refresh" => calls = << >>
        /\ mainPc # "refresh" =>
              /\ Len(calls) >= 1
              /\ calls[1] = Call("refreshAuthentication", loaded.refreshToken)
              /\ CallsOf("refreshAuthentication") = {1}
        /\ (mainPc # "refresh" /\ ~needsAuth) =>
              /\ mainPc \in {"fetch", "done"}
              /\ Len(calls) >= 2
              /\ calls[2] = Call("saveTokens", tokens.spartanToken)
              /\ tokensJson = tokens
              /\ tokens.spartanTokenExpiry = clock + TokenLifetime
              /\ CallsOf("authenticate") = {}
        /\ (mainPc = "auth" /\ needsAuth) => CallsOf("authenticate") = {}
        /\ (mainPc \in {"fetch", "done", "failed"} /\ needsAuth) =>
              Cardinality(CallsOf("authenticate")) = 1
        /\ (mainPc \in {"fetch", "done"} /\ needsAuth) =>
              \E i \in CallsOf("authenticate") :
                 /\ Len(calls) > i
                 /\ calls[i + 1] = Call("saveTokens", tokens.spartanToken)
                 /\ CallsOf("fetchAndDisplayMatches") \subseteq {i + 2}
                 /\ tokensJson = tokens
                 /\ tokens.spartanTokenExpiry = clock + TokenLifetime
        /\ mainPc = "done" =>
              /\ Len(calls) >= 1
              /\ calls[Len(calls)] =
                    Call("fetchAndDisplayMatches", tokensJson.spartanToken)
              /\ Cardinality(CallsOf("fetchAndDisplayMatches")) = 1
        /\ \A i \in CallsOf("fetchAndDisplayMatches") :
              calls[i].arg # loaded.spartanToken

\* a run found its tokens within 5 minutes of expiry, the refresh failed,
\* and it signed in again, saved and fetched
C18_Witness ==
    /\ StartedStale
    /\ startedAt < loaded.spartanTokenExpiry
    /\ mainPc = "done"
    /\ needsAuth
    /\ Len(calls) = 4
    /\ calls[1].fn = "refreshAuthentication"
    /\ calls[2].fn = "authenticate"

\* the distance from the player to the nearest location of the k-th entry
\* of the map
XuidDistances(player, k) ==
    { Abs(xResult.map[k].locations[n] - player.offset) :
        n \in 1..Len(xResult.map[k].locations) }

\* C21: after parseSummary each player's xuid is the first XUID of the map
\* that has a location at most 100 bytes from the player's gamertag offset
\* (exactly 100 counts); a player without such a XUID keeps the empty xuid.
C21_FirstXuidWithinHundred ==
    (xFn = "parseSummary" /\ ~xResult.threw) =>
        \A i \in 1..Len(xResult.players) :
            LET player == xResult.players[i]
                near == { k \in 1..Len(xResult.map) :
                            \E d \in XuidDistances(player, k) : d <= XuidProximity }
            IN  IF near = {} THEN player.xuid = << >>
                ELSE player.xuid = xResult.map[Min(near)].xuid

\* the offsets at which the bytes of xdata equal pattern
XOccurrences(pattern) ==
    { o \in 0..(Len(xdata) - Len(pattern)) : MatchesAt(xdata, pattern, o) }

\* the occurrences of the decimal string s with no digit right before and
\* right after them
Standalone(s) ==
    { o \in XOccurrences(s) :
        /\ o = 0 \/ ~IsDigit(At(xdata, o - 1))
        /\ o + Len(s) = Len(xdata) \/ ~IsDigit(At(xdata, o + Len(s))) }

MapEntries(s) == { k \in 1..Len(xResult.map) : xResult.map[k].xuid = s }
LocationsOf(k) ==
    { xResult.map[k].locations[n] : n \in 1..Len(xResult.map[k].locations) }

TripletAccepted(off) ==
    LET x == PosFloat(off)
        y == PosFloat(off + 4)
        z == PosFloat(off + 8)
    IN  /\ IsFinite(x) /\ IsFinite(y) /\ IsFinite(z)
        /\ IF posFn = "extractPositions"
             THEN /\ InCoordRange(x) /\ InCoordRange(y) /\ InCoordRange(z)
                  /\ (AboveNoise(x) \/ AboveNoise(y) \/ AboveNoise(z))
             ELSE /\ InMapRange(x) /\ InMapRange(y) /\ InElevationRange(z)
                  /\ (Significant(x) \/ Significant(y))

PosStride == IF posFn = "extractPositions" THEN posRate ELSE MapStride

\* C23: extractPositions (stride s) and extractMapPositions (stride 4)
\* return a sample for every offset k*s with k*s + 12 <= L whose triplet
\* satisfies the acceptance bounds; a buffer of exactly 12 bytes holding an
\* acceptable triplet yields one sample.
C23_EveryFittingTripletSampled ==
    posFn # "none" =>
        \A off \in 0..(Len(posData) - 12) :
            (off % PosStride = 0 /\ TripletAccepted(off)) =>
                \E k \in 1..Len(posResult) : posResult[k].offset = off

EFloat(off) ==
    [neg |-> edata[off + 4] >= 128,
     mag |-> edata[off + 1] + 256 * edata[off + 2] + 65536 * edata[off + 3]
             + 16777216 * (edata[off + 4] % 128)]

\* the triplet at i is finite with 30 < |x| < 300, 30 < |y| < 300 and
\* -20 < z < 80
WindowTripletValid(i) ==
    LET x == EFloat(i)
        y == EFloat(i + 4)
        z == EFloat(i + 8)
    IN  /\ x.mag < 2139095040 /\ y.mag < 2139095040 /\ z.mag < 2139095040
        /\ x.mag > Float30Bits /\ x.mag < Float300Bits
        /\ y.mag > Float30Bits /\ y.mag < Float300Bits
        /\ IF z.neg THEN z.mag < Float20Bits ELSE z.mag < Float80Bits

\* the offsets of the window of the gamertag at g that hold a valid triplet
WindowHits(g) ==
    LET start == IF g - 200 > 0 THEN g - 200 ELSE 0
        end == IF Len(edata) - 12 < g + 300 THEN Len(edata) - 12 ELSE g + 300
    IN  { i \in start..(end - 1) : (i - start) % 4 = 0 /\ WindowTripletValid(i) }

ExpectedPosition(g) ==
    IF WindowHits(g) = {} THEN << >>
    ELSE LET i == Min(WindowHits(g))
         IN  << [x |-> EFloat(i), y |-> EFloat(i + 4), z |-> EFloat(i + 8), offset |-> i] >>

C25_ExtractorsNeverRaise ==
    xFn # "none" => ~xResult.threw

\* C26: a players.json written by fetch-gamertags main is accepted by
\* parse-film main without error and gives as roster exactly the XUIDs and
\* the (non-empty) gamertags the lookup tool wrote.
C26_PlayersJsonRoundTrip ==
    (playersJson.present /\ roster.kind # "none") =>
        LET written == playersJson.value.items
        IN  /\ roster.kind = "ok"
            /\ Len(roster.xuids) = Len(written)
            /\ \A k \in 1..Len(written) :
                  LET g == Property(written[k], "gamertag")
                  IN  /\ roster.xuids[k] = Property(written[k], "xuid")
                      /\ (g.type = "string" /\ g.value # "") =>
                            \E n \in 1..Len(roster.gamertags) : roster.gamertags[n] = g.value

\* C27: each event returned by parseEvents names a gamertag for which
\* findGamertags, on the same buffer and roster, returns a PlayerInfo with
\* that gamertag at the offset of the occurrence that was probed, also when
\* one roster gamertag is a prefix of another.
C27_EventsNameFoundPlayers ==
    eFn = "parseEvents" =>
        LET players == findGamertags(edata, eRoster)
            keys == EventKeys
        IN  \A n \in 1..Len(eResult) :
               \E key \in keys :
                  /\ KeyTriple(key) = Triple(eResult[n])
                  /\ \E p \in 1..Len(players) :
                        /\ players[p].gamertag = eResult[n].playerGamertag
                        /\ players[p].offset = key[2]

\* the names of the event types 0x000, 0x100, ..., 0x900, in that order
TableNames ==
    << "spawn/join", "kill", "death", "assist", "medal_tier1", "medal_tier2/ctf_action",
       "flag_event", "multi_kill", "special_event", "end_of_match" >>

\* C29: every event returned by parseEvents or parseEventsWithPositions has
\* an eventType among 0x000, 0x100, ..., 0x900 and the name the table gives
\* that type; the fallback name unknown_<hex> is never produced.
C29_EventNamesFromTable ==
    eFn # "none" =>
        \A i \in 1..Len(eResult) :
            /\ eResult[i].eventType \in { 256 * k : k \in 0..9 }
            /\ eResult[i].eventTypeName = << TableNames[eResult[i].eventType \div 256 + 1] >>

\* a kill and a death were returned, a probe of type 0xA00 and one of type
\* 0x101 in the buffer were not
C29_Witness ==
    /\ eFn # "none"
    /\ \E i, j \in 1..Len(eResult) :
          eResult[i].eventType = 256 /\ eResult[j].eventType = 512
    /\ \E o \in EOccurrences(<<65>>) :
          ProbeRead(o) /\ ProbeType(o) \in {2560, 257}

HasCode(r) == r.code.present /\ r.code.value # ""
WithCode == { k \in 1..Len(requests) : HasCode(requests[k]) }

ReaderReads ==
    { "readUInt8", "readUInt16LE", "readUInt32LE", "readInt32LE", "readBigUInt64LE",
      "readFloatLE", "readBytes", "readUTF16LEString", "peekUInt16LE", "peekUInt32LE",
      "peekBytes" }

\* C30: a BufferReader read whose byte range extends past the end of the
\* buffer fails with an out-of-bounds error and leaves the read position
\* unchanged; it does not return short data.
C30_ReadsPastEndFail ==
    (rLast.op \in ReaderReads /\ rLast.from + rLast.size > Len(rbuf)) =>
        /\ rLast.threw
        /\ roffset = rLast.before

=============================================================================
